---- MODULE Spec2Model ----
(***************************************************************************)
(* Agent Trade Generation & Position Lifecycle Engine (Miramaps/Mira).     *)
(*                                                                         *)
(* Units.  The clock `now` counts whole seconds; Date.now() is now * 1000. *)
(* Probabilities are hundredths (0.80 is 80), sizes are USD, and a P&L,    *)
(* being probability * size, is therefore in cents.                        *)
(*                                                                         *)
(* Specifications.                                                         *)
(*   Spec           generateAgentTrades, called repeatedly by one caller   *)
(*   SpecRank       the same, on more candidates than 2 x maxTrades        *)
(*   SpecRace       the same, with two callers for one agent               *)
(*   SpecCache      the agent trade cache under an arbitrary client        *)
(*   SpecDecisions  the AI decision cache under an arbitrary client        *)
(*   SpecLife       processPositionLifecycle on one portfolio              *)
(*   SpecRules      the exit and flip rules on arbitrary arguments         *)
(*   SpecViews      profile lookup, statistics and summary on arbitrary   *)
(*                  arguments                                             *)
(*   SpecLive       Spec, with awaited promises that settle                *)
(*   SpecKeys       both caches under one client                           *)
(*   SpecSocket     the WebSocket client: getSocket, subscribe, disconnect *)
(* Each leaves the variables of the others at their idle values.           *)
(***************************************************************************)
EXTENDS Integers, Sequences, FiniteSets, TLC

VARIABLES
    now,             \* the wall clock, in seconds
    agentCache,      \* Map agentId -> { trades, generatedAt, marketIds }
    lastCall,        \* the most recent call of a cache API and what it returned
    lastSet,         \* per agent, the arguments of the latest setCachedAgentTrades
    misses,          \* per agent, the reads since the latest set that asked for other ids or came too late (2 = two or more)
    calls,           \* generateAgentTrades: the in-flight invocation of each caller
    feed,            \* the snapshots fetchAllMarkets can resolve to
    portfolio,       \* { openPositions, realizedPnlUsd, currentCapitalUsd }
    pre,             \* the portfolio as it was when processPositionLifecycle was last entered
    lifeArgs,        \* the marketsMap and scoresMap of that call (None: no call since the clock moved)
    closed,          \* the closedPositions array that call returned
    startingCapital, \* the capital the portfolio was created with
    probe,           \* the latest direct evaluation of an exit rule and its result
    aiCache,         \* Map `${agentId}:${marketId}` -> { decision, cachedAt }
    aiSet,           \* per key, the arguments of the latest setCachedAIDecision
    socket,          \* the WebSocket client's `socket` (None: null)
    connectionPromise, \* the WebSocket client's `connectionPromise` (None: null)
    sockets,         \* every socket io() has created, as socket.io sees it
    attempts,        \* every promise the async block of getSocket has created
    received         \* per caller, what its latest getSocket call returned

vars == << now, agentCache, lastCall, lastSet, misses, calls, feed,
           portfolio, pre, lifeArgs, closed, startingCapital, probe, aiCache, aiSet,
           socket, connectionPromise, sockets, attempts, received >>

cacheVars == << agentCache, lastCall, lastSet, misses >>
genVars   == << calls, feed >>
lifeVars  == << portfolio, pre, lifeArgs, closed, startingCapital >>
aiVars    == << aiCache, aiSet >>
wsVars    == << socket, connectionPromise, sockets, attempts, received >>

\* The WebSocket client module as loaded, no call made yet.
SocketIdle ==
    /\ socket = [some |-> FALSE]
    /\ connectionPromise = [some |-> FALSE]
    /\ sockets = << >>
    /\ attempts = << >>
    /\ received = << >>

(***************************************************************************)
(* Optional values: null / undefined / a missing Map key.                  *)
(***************************************************************************)
None == [some |-> FALSE]
Some(x) == [some |-> TRUE, val |-> x]

(***************************************************************************)
(* Bounds of the model.                                                    *)
(***************************************************************************)
MaxNow == 45                        \* the cache clock stops here (seconds)
TickSteps == {15}                   \* how far one tick moves the cache clock
CacheAgents == {"GPT_5", "GROK_4"}  \* the agent ids the cache is driven with
T(m, s) == [marketId |-> m, side |-> s]
CacheTradeLists == { << T(1, "YES") >>, << T(1, "YES"), T(2, "NO") >> }
CacheIdLists == { <<1, 2>>, <<1, 3>>, <<1, 2, 3>> }

(***************************************************************************)
(* Agent trade cache (src/README.md, lines 147-240)                        *)
(***************************************************************************)
CACHE_TTL_MS == 30 * 1000

DateNow == now * 1000

MapDelete(map, key) == [map EXCEPT ![key] = None]

\* Mutant: the id comparison loop tests equality instead of inequality.
getCachedAgentTrades_invertedCompare(cache, agentId, currentMarketIds) ==
    LET entry == cache[agentId] IN
    IF ~entry.some
    THEN [ret |-> None, cache |-> cache]
    ELSE IF DateNow - entry.val.generatedAt >= CACHE_TTL_MS
    THEN [ret |-> None, cache |-> MapDelete(cache, agentId)]
    ELSE IF Len(entry.val.marketIds) # Len(currentMarketIds)
    THEN [ret |-> None, cache |-> MapDelete(cache, agentId)]
    ELSE IF \E i \in 1..Len(entry.val.marketIds) :
                entry.val.marketIds[i] = currentMarketIds[i]
    THEN [ret |-> None, cache |-> MapDelete(cache, agentId)]
    ELSE [ret |-> Some(entry.val.trades), cache |-> cache]

\* Mutant: only the number of market ids is compared, not the ids.
getCachedAgentTrades_lengthOnly(cache, agentId, currentMarketIds) ==
    LET entry == cache[agentId] IN
    IF ~entry.some
    THEN [ret |-> None, cache |-> cache]
    ELSE IF DateNow - entry.val.generatedAt >= CACHE_TTL_MS
    THEN [ret |-> None, cache |-> MapDelete(cache, agentId)]
    ELSE IF Len(entry.val.marketIds) # Len(currentMarketIds)
    THEN [ret |-> None, cache |-> MapDelete(cache, agentId)]
    ELSE [ret |-> Some(entry.val.trades), cache |-> cache]

getCachedAgentTrades(cache, agentId, currentMarketIds) ==
    LET entry == cache[agentId] IN
    IF ~entry.some
    THEN [ret |-> None, cache |-> cache]
    ELSE IF DateNow - entry.val.generatedAt >= CACHE_TTL_MS
    THEN [ret |-> None, cache |-> MapDelete(cache, agentId)]
    ELSE IF Len(entry.val.marketIds) # Len(currentMarketIds)
    THEN [ret |-> None, cache |-> MapDelete(cache, agentId)]
    ELSE IF \E i \in 1..Len(entry.val.marketIds) :
                entry.val.marketIds[i] # currentMarketIds[i]
    THEN [ret |-> None, cache |-> MapDelete(cache, agentId)]
    ELSE [ret |-> Some(entry.val.trades), cache |-> cache]

setCachedAgentTrades(cache, agentId, trades, marketIds) ==
    [cache EXCEPT ![agentId] =
        Some([trades |-> trades, generatedAt |-> DateNow, marketIds |-> marketIds])]

\* Mutant: an entry aged exactly the TTL still counts as fresh.
getCachedTradesQuick_strictTtl(cache, agentId) ==
    LET entry == cache[agentId] IN
    IF ~entry.some
    THEN [ret |-> None, cache |-> cache]
    ELSE IF DateNow - entry.val.generatedAt > CACHE_TTL_MS
    THEN [ret |-> None, cache |-> MapDelete(cache, agentId)]
    ELSE [ret |-> Some(entry.val.trades), cache |-> cache]

\* Mutant: a hit hands the trades out and drops the entry.
getCachedTradesQuick_evicting(cache, agentId) ==
    LET entry == cache[agentId] IN
    IF ~entry.some
    THEN [ret |-> None, cache |-> cache]
    ELSE IF DateNow - entry.val.generatedAt >= CACHE_TTL_MS
    THEN [ret |-> None, cache |-> MapDelete(cache, agentId)]
    ELSE [ret |-> Some(entry.val.trades), cache |-> MapDelete(cache, agentId)]

getCachedTradesQuick(cache, agentId) ==
    LET entry == cache[agentId] IN
    IF ~entry.some
    THEN [ret |-> None, cache |-> cache]
    ELSE IF DateNow - entry.val.generatedAt >= CACHE_TTL_MS
    THEN [ret |-> None, cache |-> MapDelete(cache, agentId)]
    ELSE [ret |-> Some(entry.val.trades), cache |-> cache]

clearAgentCache(cache) == [a \in DOMAIN cache |-> None]

(***************************************************************************)
(* A client of the cache API: any call, with any arguments, at any time.   *)
(* lastSet and misses remember what the client asked for, never what the   *)
(* cache did.                                                              *)
(***************************************************************************)
Bump(n) == IF n < 2 THEN n + 1 ELSE 2

TooLate(a) == lastSet[a].some /\ now - lastSet[a].val.at >= 30

CallSet(a, trades, ids) ==
    /\ agentCache' = setCachedAgentTrades(agentCache, a, trades, ids)
    /\ lastSet' = [lastSet EXCEPT ![a] = Some([trades |-> trades, ids |-> ids, at |-> now])]
    /\ misses' = [misses EXCEPT ![a] = 0]
    /\ lastCall' = [op |-> "set", agent |-> a, ids |-> ids, at |-> now, ret |-> None]
    /\ UNCHANGED << wsVars, now, genVars, lifeVars, probe, aiVars >>

CallGet(a, ids) ==
    LET r == getCachedAgentTrades(agentCache, a, ids) IN
    /\ agentCache' = r.cache
    /\ misses' = [misses EXCEPT ![a] =
                     IF lastSet[a].some /\ (ids # lastSet[a].val.ids \/ TooLate(a))
                     THEN Bump(@) ELSE @]
    /\ lastCall' = [op |-> "get", agent |-> a, ids |-> ids, at |-> now, ret |-> r.ret]
    /\ UNCHANGED << wsVars, now, lastSet, genVars, lifeVars, probe, aiVars >>

CallQuick(a) ==
    LET r == getCachedTradesQuick(agentCache, a) IN
    /\ agentCache' = r.cache
    /\ misses' = [misses EXCEPT ![a] = IF TooLate(a) THEN Bump(@) ELSE @]
    /\ lastCall' = [op |-> "quick", agent |-> a, ids |-> << >>, at |-> now, ret |-> r.ret]
    /\ UNCHANGED << wsVars, now, lastSet, genVars, lifeVars, probe, aiVars >>

CallClear ==
    /\ agentCache' = clearAgentCache(agentCache)
    /\ lastSet' = [a \in CacheAgents |-> None]
    /\ misses' = [a \in CacheAgents |-> 0]
    /\ lastCall' = [op |-> "clear", agent |-> "", ids |-> << >>, at |-> now, ret |-> None]
    /\ UNCHANGED << wsVars, now, genVars, lifeVars, probe, aiVars >>

Tick ==
    /\ \E d \in TickSteps : now + d <= MaxNow /\ now' = now + d
    /\ UNCHANGED << wsVars, cacheVars, genVars, lifeVars, probe, aiVars >>

IdleCalls == << >>
IdlePortfolio == [openPositions |-> << >>, realizedPnlUsd |-> 0, currentCapitalUsd |-> 0]
IdleProbe == [op |-> "none"]
NoCall == [op |-> "none", agent |-> "", ids |-> << >>, at |-> 0, ret |-> None]

InitCache ==
    /\ now = 0
    /\ SocketIdle
    /\ agentCache = [a \in CacheAgents |-> None]
    /\ lastCall = NoCall
    /\ lastSet = [a \in CacheAgents |-> None]
    /\ misses = [a \in CacheAgents |-> 0]
    /\ calls = IdleCalls
    /\ feed = {}
    /\ portfolio = IdlePortfolio
    /\ pre = IdlePortfolio
    /\ lifeArgs = None
    /\ closed = << >>
    /\ startingCapital = 0
    /\ probe = IdleProbe
    /\ aiCache = << >>
    /\ aiSet = << >>

NextCache ==
    \/ \E a \in CacheAgents, trades \in CacheTradeLists, ids \in CacheIdLists :
          CallSet(a, trades, ids)
    \/ \E a \in CacheAgents, ids \in CacheIdLists : CallGet(a, ids)
    \/ \E a \in CacheAgents : CallQuick(a)
    \/ CallClear
    \/ Tick

SpecCache == InitCache /\ [][NextCache]_vars

(***************************************************************************)
(* AI decision cache (src/dist-server/lib/agents/ai-cache.js)              *)
(***************************************************************************)
AI_CACHE_TTL == 30 * 1000

\* `${agentId}:${marketId}`: the two ids as strings, joined by a colon
AIKey(agentId, marketId) == agentId \o ":" \o marketId

\* Mutant: a read that finds its entry expired sweeps every expired entry.
getCachedAIDecision_sweeping(cache, agentId, marketId) ==
    LET key == AIKey(agentId, marketId)
        entry == cache[key]
    IN  IF ~entry.some
        THEN [ret |-> None, cache |-> cache]
        ELSE IF DateNow - entry.val.cachedAt >= AI_CACHE_TTL
        THEN [ret |-> None,
              cache |-> [k \in DOMAIN cache |->
                            IF cache[k].some /\ DateNow - cache[k].val.cachedAt >= AI_CACHE_TTL
                            THEN None ELSE cache[k]]]
        ELSE [ret |-> Some(entry.val.decision), cache |-> cache]

\* Mutant: an entry aged exactly the TTL still counts as fresh.
getCachedAIDecision_strictTtl(cache, agentId, marketId) ==
    LET key == AIKey(agentId, marketId)
        entry == cache[key]
    IN  IF ~entry.some
        THEN [ret |-> None, cache |-> cache]
        ELSE IF DateNow - entry.val.cachedAt > AI_CACHE_TTL
        THEN [ret |-> None, cache |-> MapDelete(cache, key)]
        ELSE [ret |-> Some(entry.val.decision), cache |-> cache]

getCachedAIDecision(cache, agentId, marketId) ==
    LET key == AIKey(agentId, marketId)
        entry == cache[key]
    IN  IF ~entry.some
        THEN [ret |-> None, cache |-> cache]
        ELSE IF DateNow - entry.val.cachedAt >= AI_CACHE_TTL
        THEN [ret |-> None, cache |-> MapDelete(cache, key)]
        ELSE [ret |-> Some(entry.val.decision), cache |-> cache]

setCachedAIDecision(cache, agentId, marketId, decision) ==
    [cache EXCEPT ![AIKey(agentId, marketId)] =
        Some([decision |-> decision, cachedAt |-> DateNow])]

clearAICache(cache) == [k \in DOMAIN cache |-> None]

(***************************************************************************)
(* A client of the decision cache: any call, for any pair, at any time.    *)
(* aiSet remembers what the client stored, never what the cache did.       *)
(***************************************************************************)
AIPairs == { << "GPT_5", "1" >>, << "GPT_5", "2" >>, << "GROK_4", "1" >> }
AIKeys == { AIKey(pair[1], pair[2]) : pair \in AIPairs }
AIDecisions == { [side |-> "YES", confidence |-> 75], [side |-> "NO", confidence |-> 60] }

CallSetAI(a, m, decision) ==
    /\ aiCache' = setCachedAIDecision(aiCache, a, m, decision)
    /\ aiSet' = [aiSet EXCEPT ![AIKey(a, m)] = Some([decision |-> decision, at |-> now])]
    /\ lastCall' = [op |-> "setAI", agent |-> a, market |-> m, at |-> now, ret |-> None]
    /\ UNCHANGED << wsVars, now, agentCache, lastSet, misses, genVars, lifeVars, probe >>

CallGetAI(a, m) ==
    LET r == getCachedAIDecision(aiCache, a, m) IN
    /\ aiCache' = r.cache
    /\ lastCall' = [op |-> "getAI", agent |-> a, market |-> m, at |-> now, ret |-> r.ret]
    /\ UNCHANGED << wsVars, now, aiSet, agentCache, lastSet, misses, genVars, lifeVars, probe >>

CallClearAI ==
    /\ aiCache' = clearAICache(aiCache)
    /\ aiSet' = [k \in AIKeys |-> None]
    /\ lastCall' = [op |-> "clearAI", agent |-> "", market |-> "", at |-> now, ret |-> None]
    /\ UNCHANGED << wsVars, now, agentCache, lastSet, misses, genVars, lifeVars, probe >>

InitDecisions ==
    /\ now = 0
    /\ SocketIdle
    /\ aiCache = [k \in AIKeys |-> None]
    /\ aiSet = [k \in AIKeys |-> None]
    /\ lastCall = NoCall
    /\ agentCache = [a \in CacheAgents |-> None]
    /\ lastSet = [a \in CacheAgents |-> None]
    /\ misses = [a \in CacheAgents |-> 0]
    /\ calls = IdleCalls
    /\ feed = {}
    /\ portfolio = IdlePortfolio
    /\ pre = IdlePortfolio
    /\ lifeArgs = None
    /\ closed = << >>
    /\ startingCapital = 0
    /\ probe = IdleProbe

NextDecisions ==
    \/ \E pair \in AIPairs, decision \in AIDecisions : CallSetAI(pair[1], pair[2], decision)
    \/ \E pair \in AIPairs : CallGetAI(pair[1], pair[2])
    \/ CallClearAI
    \/ Tick

SpecDecisions == InitDecisions /\ [][NextDecisions]_vars

(***************************************************************************)
(* Trade lifecycle management (src/README.md, lines 242-380)               *)
(***************************************************************************)
TAKE_PROFIT_YES == 80
TAKE_PROFIT_NO == 20
STOP_LOSS_YES == 30
STOP_LOSS_NO == 70
MAX_HOLDING_DAYS == 30
MIN_SCORE_THRESHOLD == 20

\* (1000 * 60 * 60 * 24) milliseconds, in the clock's seconds
SecondsPerDay == 60 * 60 * 24

\* daysOpen >= days, for daysOpen = (Date.now() - openedAt) / (1000 * 60 * 60 * 24)
DaysOpenAtLeast(position, days) == now - position.openedAt >= days * SecondsPerDay

\* Mutant: the take-profit and stop-loss comparisons are strict.
shouldClosePosition_strict(position, market, score) ==
    LET currentProb == market.currentProbability IN
    IF position.side = "YES" /\ currentProb > TAKE_PROFIT_YES THEN TRUE
    ELSE IF position.side = "NO" /\ currentProb < TAKE_PROFIT_NO THEN TRUE
    ELSE IF position.side = "YES" /\ currentProb < STOP_LOSS_YES THEN TRUE
    ELSE IF position.side = "NO" /\ currentProb > STOP_LOSS_NO THEN TRUE
    ELSE IF DaysOpenAtLeast(position, MAX_HOLDING_DAYS) THEN TRUE
    ELSE IF score.some /\ score.val < MIN_SCORE_THRESHOLD THEN TRUE
    ELSE FALSE

\* Mutant: a score equal to the floor closes as well.
shouldClosePosition_atFloor(position, market, score) ==
    LET currentProb == market.currentProbability IN
    IF position.side = "YES" /\ currentProb >= TAKE_PROFIT_YES THEN TRUE
    ELSE IF position.side = "NO" /\ currentProb <= TAKE_PROFIT_NO THEN TRUE
    ELSE IF position.side = "YES" /\ currentProb <= STOP_LOSS_YES THEN TRUE
    ELSE IF position.side = "NO" /\ currentProb >= STOP_LOSS_NO THEN TRUE
    ELSE IF DaysOpenAtLeast(position, MAX_HOLDING_DAYS) THEN TRUE
    ELSE IF score.some /\ score.val <= MIN_SCORE_THRESHOLD THEN TRUE
    ELSE FALSE

shouldClosePosition(position, market, score) ==
    LET currentProb == market.currentProbability IN
    IF position.side = "YES" /\ currentProb >= TAKE_PROFIT_YES THEN TRUE
    ELSE IF position.side = "NO" /\ currentProb <= TAKE_PROFIT_NO THEN TRUE
    ELSE IF position.side = "YES" /\ currentProb <= STOP_LOSS_YES THEN TRUE
    ELSE IF position.side = "NO" /\ currentProb >= STOP_LOSS_NO THEN TRUE
    ELSE IF DaysOpenAtLeast(position, MAX_HOLDING_DAYS) THEN TRUE
    ELSE IF score.some /\ score.val < MIN_SCORE_THRESHOLD THEN TRUE
    ELSE FALSE

\* Mutant: a NO position is paid like a YES position.
calculateRealizedPnl_sameForNo(position, exitProbability) ==
    (exitProbability - position.entryProbability) * position.sizeUsd

calculateRealizedPnl(position, exitProbability) ==
    LET entryProb == position.entryProbability
        sizeUsd == position.sizeUsd
    IN  IF position.side = "YES"
        THEN (exitProbability - entryProb) * sizeUsd
        ELSE (entryProb - exitProbability) * sizeUsd

Abs(x) == IF x < 0 THEN 0 - x ELSE x

\* newConfidence is in hundredths, as the probabilities are
shouldFlipPosition(position, market, agent, newConfidence) ==
    LET currentProb == market.currentProbability
        entryProb == position.entryProbability
        isLosing == IF position.side = "YES"
                    THEN currentProb < entryProb
                    ELSE currentProb > entryProb
        probChange == Abs(currentProb - entryProb)
    IN  IF ~isLosing THEN FALSE
        ELSE IF newConfidence < 70 THEN FALSE
        ELSE IF probChange < 10 THEN FALSE
        ELSE TRUE

\* Map.get(key), and scoresMap?.get(key) for an optional map
MapGet(map, key) == IF key \in DOMAIN map THEN Some(map[key]) ELSE None
OptMapGet(optMap, key) == IF optMap.some THEN MapGet(optMap.val, key) ELSE None

\* delete portfolio.openPositions[marketId]
DeleteKey(obj, key) == [k \in DOMAIN obj \ {key} |-> obj[k]]

\* Object.entries(portfolio.openPositions): integer-like keys, in ascending order
RECURSIVE SortedKeys(_)
SortedKeys(keys) ==
    IF keys = {} THEN << >>
    ELSE LET k == CHOOSE x \in keys : \A y \in keys : x <= y
         IN  << k >> \o SortedKeys(keys \ {k})

\* Mutant: a position that stays open is re-marked to the current probability.
LifecycleStep_remark(st, marketId, position, marketsMap, scoresMap) ==
    LET market == MapGet(marketsMap, marketId) IN
    IF ~market.some
    THEN [closedPositions |-> Append(st.closedPositions,
                                [position |-> position, realizedPnl |-> position.unrealizedPnl]),
          portfolio |-> [st.portfolio EXCEPT
                            !.openPositions = DeleteKey(@, marketId)]]
    ELSE IF shouldClosePosition(position, market.val, OptMapGet(scoresMap, marketId))
    THEN LET realizedPnl == calculateRealizedPnl(position, market.val.currentProbability)
         IN [closedPositions |-> Append(st.closedPositions,
                                    [position |-> position, realizedPnl |-> realizedPnl]),
             portfolio |-> [st.portfolio EXCEPT
                               !.openPositions = DeleteKey(@, marketId),
                               !.realizedPnlUsd = @ + realizedPnl,
                               !.currentCapitalUsd = @ + realizedPnl]]
    ELSE [st EXCEPT !.portfolio.openPositions[marketId].entryProbability =
                        market.val.currentProbability]

\* Mutant: a delisted position is closed at no P&L instead of its last unrealized P&L.
LifecycleStep_delistedZero(st, marketId, position, marketsMap, scoresMap) ==
    LET market == MapGet(marketsMap, marketId) IN
    IF ~market.some
    THEN [closedPositions |-> Append(st.closedPositions,
                                [position |-> position, realizedPnl |-> 0]),
          portfolio |-> [st.portfolio EXCEPT
                            !.openPositions = DeleteKey(@, marketId)]]
    ELSE IF shouldClosePosition(position, market.val, OptMapGet(scoresMap, marketId))
    THEN LET realizedPnl == calculateRealizedPnl(position, market.val.currentProbability)
         IN [closedPositions |-> Append(st.closedPositions,
                                    [position |-> position, realizedPnl |-> realizedPnl]),
             portfolio |-> [st.portfolio EXCEPT
                               !.openPositions = DeleteKey(@, marketId),
                               !.realizedPnlUsd = @ + realizedPnl,
                               !.currentCapitalUsd = @ + realizedPnl]]
    ELSE st

\* Mutant: a rule-based close is reported and credited, the position is not deleted.
LifecycleStep_reportOnly(st, marketId, position, marketsMap, scoresMap) ==
    LET market == MapGet(marketsMap, marketId) IN
    IF ~market.some
    THEN [closedPositions |-> Append(st.closedPositions,
                                [position |-> position, realizedPnl |-> position.unrealizedPnl]),
          portfolio |-> [st.portfolio EXCEPT
                            !.openPositions = DeleteKey(@, marketId)]]
    ELSE IF shouldClosePosition(position, market.val, OptMapGet(scoresMap, marketId))
    THEN LET realizedPnl == calculateRealizedPnl(position, market.val.currentProbability)
         IN [closedPositions |-> Append(st.closedPositions,
                                    [position |-> position, realizedPnl |-> realizedPnl]),
             portfolio |-> [st.portfolio EXCEPT
                               !.realizedPnlUsd = @ + realizedPnl,
                               !.currentCapitalUsd = @ + realizedPnl]]
    ELSE st

\* Mutant: a rule-based close forgets to credit the capital.
LifecycleStep_noCapital(st, marketId, position, marketsMap, scoresMap) ==
    LET market == MapGet(marketsMap, marketId) IN
    IF ~market.some
    THEN [closedPositions |-> Append(st.closedPositions,
                                [position |-> position, realizedPnl |-> position.unrealizedPnl]),
          portfolio |-> [st.portfolio EXCEPT
                            !.openPositions = DeleteKey(@, marketId)]]
    ELSE IF shouldClosePosition(position, market.val, OptMapGet(scoresMap, marketId))
    THEN LET realizedPnl == calculateRealizedPnl(position, market.val.currentProbability)
         IN [closedPositions |-> Append(st.closedPositions,
                                    [position |-> position, realizedPnl |-> realizedPnl]),
             portfolio |-> [st.portfolio EXCEPT
                               !.openPositions = DeleteKey(@, marketId),
                               !.realizedPnlUsd = @ + realizedPnl]]
    ELSE st

\* One iteration of the for loop of processPositionLifecycle.
LifecycleStep(st, marketId, position, marketsMap, scoresMap) ==
    LET market == MapGet(marketsMap, marketId) IN
    IF ~market.some
    THEN [closedPositions |-> Append(st.closedPositions,
                                [position |-> position, realizedPnl |-> position.unrealizedPnl]),
          portfolio |-> [st.portfolio EXCEPT
                            !.openPositions = DeleteKey(@, marketId)]]
    ELSE IF shouldClosePosition(position, market.val, OptMapGet(scoresMap, marketId))
    THEN LET realizedPnl == calculateRealizedPnl(position, market.val.currentProbability)
         IN [closedPositions |-> Append(st.closedPositions,
                                    [position |-> position, realizedPnl |-> realizedPnl]),
             portfolio |-> [st.portfolio EXCEPT
                               !.openPositions = DeleteKey(@, marketId),
                               !.realizedPnlUsd = @ + realizedPnl,
                               !.currentCapitalUsd = @ + realizedPnl]]
    ELSE st

\* Mutant: the loop stops at the first position whose market is absent.
RECURSIVE LifecycleLoop_breakOnAbsent(_, _, _, _, _)
LifecycleLoop_breakOnAbsent(st, keys, entries, marketsMap, scoresMap) ==
    IF keys = << >> THEN st
    ELSE IF ~MapGet(marketsMap, Head(keys)).some
    THEN LifecycleStep(st, Head(keys), entries[Head(keys)], marketsMap, scoresMap)
    ELSE LifecycleLoop_breakOnAbsent(
            LifecycleStep(st, Head(keys), entries[Head(keys)], marketsMap, scoresMap),
            Tail(keys), entries, marketsMap, scoresMap)

\* Mutant: only the first entry is evaluated.
LifecycleLoop_firstEntryOnly(st, keys, entries, marketsMap, scoresMap) ==
    IF keys = << >> THEN st
    ELSE LifecycleStep(st, Head(keys), entries[Head(keys)], marketsMap, scoresMap)

\* The loop runs over the entries as they were when it started.
RECURSIVE LifecycleLoop(_, _, _, _, _)
LifecycleLoop(st, keys, entries, marketsMap, scoresMap) ==
    IF keys = << >> THEN st
    ELSE LifecycleLoop(
            LifecycleStep(st, Head(keys), entries[Head(keys)], marketsMap, scoresMap),
            Tail(keys), entries, marketsMap, scoresMap)

processPositionLifecycle(pf, marketsMap, scoresMap) ==
    LifecycleLoop([closedPositions |-> << >>, portfolio |-> pf],
                  SortedKeys(DOMAIN pf.openPositions), pf.openPositions,
                  marketsMap, scoresMap)

(***************************************************************************)
(* A refresh loop: processPositionLifecycle on one portfolio, against any  *)
(* snapshot, at any time.                                                  *)
(***************************************************************************)
NumLifeMarkets == 2
LifeMarkets == 1..NumLifeMarkets
LifeProbs == {20, 50, 80}
LifeTickSteps == {30 * SecondsPerDay}
MaxLifeNow == 30 * SecondsPerDay
InitialCapitals == {300000}
InitialRealized == {1200}

Position(m, side, entry, size, upnl) ==
    [marketId |-> m, side |-> side, entryProbability |-> entry, sizeUsd |-> size,
     openedAt |-> 0, unrealizedPnl |-> upnl]

PositionsOn(m) ==
    { Position(m, "YES", 40, 100, 700), Position(m, "NO", 60, 250, 0 - 500) }

OpenPositionMaps ==
    UNION { { f \in [held -> UNION { PositionsOn(m) : m \in held }] :
                \A m \in held : f[m].marketId = m } : held \in SUBSET LifeMarkets }

MarketsMaps ==
    UNION { [listed -> [currentProbability : LifeProbs]] : listed \in SUBSET LifeMarkets }

ScoresMaps ==
    { None, Some([m \in LifeMarkets |-> 19]), Some([m \in LifeMarkets |-> 20]) }

ProcessLifecycle(marketsMap, scoresMap) ==
    LET r == processPositionLifecycle(portfolio, marketsMap, scoresMap) IN
    /\ pre' = portfolio
    /\ lifeArgs' = Some([marketsMap |-> marketsMap, scoresMap |-> scoresMap])
    /\ portfolio' = r.portfolio
    /\ closed' = r.closedPositions
    /\ UNCHANGED << wsVars, now, startingCapital, cacheVars, genVars, probe, aiVars >>

\* Time passes between two refresh cycles; the previous cycle's report is dropped.
LifeTick ==
    /\ \E d \in LifeTickSteps : now + d <= MaxLifeNow /\ now' = now + d
    /\ pre' = portfolio
    /\ lifeArgs' = None
    /\ closed' = << >>
    /\ UNCHANGED << wsVars, portfolio, startingCapital, cacheVars, genVars, probe, aiVars >>

InitLife ==
    /\ now = 0
    /\ SocketIdle
    /\ startingCapital \in InitialCapitals
    /\ \E open \in OpenPositionMaps, realized \in InitialRealized :
          portfolio = [openPositions |-> open, realizedPnlUsd |-> realized,
                       currentCapitalUsd |-> startingCapital + realized]
    /\ pre = portfolio
    /\ lifeArgs = None
    /\ closed = << >>
    /\ agentCache = [a \in CacheAgents |-> None]
    /\ lastCall = NoCall
    /\ lastSet = [a \in CacheAgents |-> None]
    /\ misses = [a \in CacheAgents |-> 0]
    /\ calls = IdleCalls
    /\ feed = {}
    /\ probe = IdleProbe
    /\ aiCache = << >>
    /\ aiSet = << >>

NextLife ==
    \/ \E marketsMap \in MarketsMaps, scoresMap \in ScoresMaps :
          ProcessLifecycle(marketsMap, scoresMap)
    \/ LifeTick

SpecLife == InitLife /\ [][NextLife]_vars

(***************************************************************************)
(* Agent profiles (src/dist-server/lib/agents/domain.js)                   *)
(***************************************************************************)
AGENT_PROFILES ==
    [ GROK_4      |-> [id |-> "GROK_4", minVolume |-> 30000, minLiquidity |-> 5000,
                       maxTrades |-> 5, risk |-> "HIGH"],
      GPT_5       |-> [id |-> "GPT_5", minVolume |-> 100000, minLiquidity |-> 20000,
                       maxTrades |-> 4, risk |-> "MEDIUM"],
      DEEPSEEK_V3 |-> [id |-> "DEEPSEEK_V3", minVolume |-> 75000, minLiquidity |-> 15000,
                       maxTrades |-> 6, risk |-> "MEDIUM"],
      GEMINI_2_5  |-> [id |-> "GEMINI_2_5", minVolume |-> 20000, minLiquidity |-> 3000,
                       maxTrades |-> 7, risk |-> "HIGH"],
      CLAUDE_4_5  |-> [id |-> "CLAUDE_4_5", minVolume |-> 80000, minLiquidity |-> 18000,
                       maxTrades |-> 5, risk |-> "LOW"],
      QWEN_2_5    |-> [id |-> "QWEN_2_5", minVolume |-> 60000, minLiquidity |-> 12000,
                       maxTrades |-> 6, risk |-> "MEDIUM"] ]

ALL_AGENT_IDS == DOMAIN AGENT_PROFILES

\* AGENT_PROFILES is an object literal, so a property lookup that finds no own
\* property goes on to Object.prototype; these are names it finds there.
ObjectPrototypeKeys == { "constructor", "toString", "valueOf", "hasOwnProperty", "__proto__" }

\* What Object.prototype holds under such a name: a function or an object, truthy.
Inherited(key) == [inheritedFrom |-> "Object.prototype", key |-> key]

\* AGENT_PROFILES[agentId]
ProfileLookup(agentId) ==
    IF agentId \in DOMAIN AGENT_PROFILES THEN Some(AGENT_PROFILES[agentId])
    ELSE IF agentId \in ObjectPrototypeKeys THEN Some(Inherited(agentId))
    ELSE None

\* None stands for the thrown Error(`Unknown agent ID: ...`)
getAgentProfile(agentId) ==
    LET profile == ProfileLookup(agentId) IN
    IF ~profile.some THEN None ELSE profile

\* id in AGENT_PROFILES
isValidAgentId(id) == id \in DOMAIN AGENT_PROFILES \/ id \in ObjectPrototypeKeys

(***************************************************************************)
(* The collaborators generateAgentTrades imports from ./scoring and        *)
(* ./engine.                                                               *)
(***************************************************************************)
\* A market qualifies iff volume >= minVolume and liquidity >= minLiquidity.
filterCandidateMarkets(agent, markets) ==
    SelectSeq(markets, LAMBDA m : m.volume >= agent.minVolume
                                  /\ m.liquidity >= agent.minLiquidity)

\* The score is a pure function of the market, the news and the agent; the snapshot
\* carries its value.
scoreMarketForAgent(market, agent) == [id |-> market.id, score |-> market.score]

\* The trade the oracle recommends on a scored market.
TradeFor(agent, scored) == [agentId |-> agent.id, marketId |-> scored.id]

(***************************************************************************)
(* generateAgentTrades (src/src/lib/agents/config.ts, lines 103-201)       *)
(***************************************************************************)
\* Array.prototype.sort with (a, b) => b.score - a.score: stable, descending
RECURSIVE InsertByScore(_, _)
InsertByScore(sorted, x) ==
    IF sorted = << >> THEN << x >>
    ELSE IF Head(sorted).score >= x.score
         THEN << Head(sorted) >> \o InsertByScore(Tail(sorted), x)
         ELSE << x >> \o sorted

RECURSIVE SortByScoreDesc(_)
SortByScoreDesc(seq) ==
    IF seq = << >> THEN << >>
    ELSE InsertByScore(SortByScoreDesc(SubSeq(seq, 1, Len(seq) - 1)), seq[Len(seq)])

\* markets.map(m => m.id).sort(), on one-character ids
RECURSIVE SortIds(_)
SortIds(ids) ==
    IF ids = {} THEN << >>
    ELSE LET k == CHOOSE x \in ids : \A y \in ids : x <= y
         IN  << k >> \o SortIds(ids \ {k})

MarketIds(markets) == SortIds({ markets[k].id : k \in 1..Len(markets) })

\* Mutant: every scored market is kept, not only the top 2 x maxTrades.
Slice_unlimited(seq, n) == seq

\* scoredMarkets.slice(0, agent.maxTrades * 2)
Slice(seq, n) == SubSeq(seq, 1, IF Len(seq) < n THEN Len(seq) ELSE n)

\* Mutant: the break is missing.
ReachedMaxTrades_never(trades, agent) == FALSE

\* Mutant: the loop stops one trade late.
ReachedMaxTrades_late(trades, agent) == Len(trades) > agent.maxTrades

\* if (trades.length >= agent.maxTrades) break
ReachedMaxTrades(trades, agent) == Len(trades) >= agent.maxTrades

IdleCall ==
    [pc |-> "idle", agentId |-> "", markets |-> << >>, currentMarketIds |-> << >>,
     topMarkets |-> << >>, i |-> 0, trades |-> << >>, hit |-> FALSE,
     outcome |-> "none", log |-> << >>, ret |-> None]

\* In a call record, `outcome` is how the promise awaited last settled and `log` how
\* generateTradeForMarket settled for topMarkets[1], topMarkets[2], ... so far.

\* generateAgentTrades(agentId) up to its first await; caller c polls one agent id
Invoke(c) ==
    /\ calls[c].pc \in {"idle", "returned", "threw"}
    /\ calls' = [calls EXCEPT ![c] =
                    IF getAgentProfile(calls[c].agentId).some
                    THEN [IdleCall EXCEPT !.pc = "fetching", !.agentId = calls[c].agentId]
                    ELSE [IdleCall EXCEPT !.pc = "threw", !.agentId = calls[c].agentId]]
    /\ UNCHANGED << wsVars, now, feed, cacheVars, lifeVars, probe, aiVars >>

\* The end of the function: the duration log, the cache write and the return.
Finish(call, cache) ==
    [call |-> [call EXCEPT !.pc = "returned", !.ret = Some(call.trades)],
     cache |-> setCachedAgentTrades(cache, call.agentId, call.trades,
                                    call.currentMarketIds)]

\* Mutant: a cache hit stores the entry again, which restarts its age.
AfterFetch_refreshingHit(call, markets, cache) ==
    LET agent == getAgentProfile(call.agentId).val
        currentMarketIds == MarketIds(markets)
        cached == getCachedAgentTrades(cache, call.agentId, currentMarketIds)
        candidates == filterCandidateMarkets(agent, markets)
        scoredMarkets == SortByScoreDesc(
                            [k \in 1..Len(candidates) |->
                                scoreMarketForAgent(candidates[k], agent)])
        topMarkets == Slice(scoredMarkets, agent.maxTrades * 2)
        fetched == [call EXCEPT !.markets = markets,
                                !.currentMarketIds = currentMarketIds]
    IN  IF cached.ret.some
        THEN [call |-> [fetched EXCEPT !.pc = "returned", !.hit = TRUE,
                                       !.ret = cached.ret],
              cache |-> setCachedAgentTrades(cached.cache, call.agentId,
                                             cached.ret.val, currentMarketIds)]
        ELSE IF Len(candidates) = 0
        THEN [call |-> [fetched EXCEPT !.pc = "returned", !.ret = Some(<< >>)],
              cache |-> cached.cache]
        ELSE IF Len(topMarkets) = 0
        THEN Finish([fetched EXCEPT !.topMarkets = topMarkets], cached.cache)
        ELSE [call |-> [fetched EXCEPT !.pc = "consulting", !.topMarkets = topMarkets,
                                       !.i = 1],
              cache |-> cached.cache]

\* Mutant: every fetched market is scored, not only the candidates.
AfterFetch_unfiltered(call, markets, cache) ==
    LET agent == getAgentProfile(call.agentId).val
        currentMarketIds == MarketIds(markets)
        cached == getCachedAgentTrades(cache, call.agentId, currentMarketIds)
        candidates == markets
        scoredMarkets == SortByScoreDesc(
                            [k \in 1..Len(candidates) |->
                                scoreMarketForAgent(candidates[k], agent)])
        topMarkets == Slice(scoredMarkets, agent.maxTrades * 2)
        fetched == [call EXCEPT !.markets = markets,
                                !.currentMarketIds = currentMarketIds]
    IN  IF cached.ret.some
        THEN [call |-> [fetched EXCEPT !.pc = "returned", !.hit = TRUE,
                                       !.ret = cached.ret],
              cache |-> cached.cache]
        ELSE IF Len(candidates) = 0
        THEN [call |-> [fetched EXCEPT !.pc = "returned", !.ret = Some(<< >>)],
              cache |-> cached.cache]
        ELSE IF Len(topMarkets) = 0
        THEN Finish([fetched EXCEPT !.topMarkets = topMarkets], cached.cache)
        ELSE [call |-> [fetched EXCEPT !.pc = "consulting", !.topMarkets = topMarkets,
                                       !.i = 1],
              cache |-> cached.cache]

\* Promise.all resolved: from the cache check to the first oracle call
AfterFetch(call, markets, cache) ==
    LET agent == getAgentProfile(call.agentId).val
        currentMarketIds == MarketIds(markets)
        cached == getCachedAgentTrades(cache, call.agentId, currentMarketIds)
        candidates == filterCandidateMarkets(agent, markets)
        scoredMarkets == SortByScoreDesc(
                            [k \in 1..Len(candidates) |->
                                scoreMarketForAgent(candidates[k], agent)])
        topMarkets == Slice(scoredMarkets, agent.maxTrades * 2)
        fetched == [call EXCEPT !.markets = markets,
                                !.currentMarketIds = currentMarketIds]
    IN  IF cached.ret.some
        THEN [call |-> [fetched EXCEPT !.pc = "returned", !.hit = TRUE,
                                       !.ret = cached.ret],
              cache |-> cached.cache]
        ELSE IF Len(candidates) = 0
        THEN [call |-> [fetched EXCEPT !.pc = "returned", !.ret = Some(<< >>)],
              cache |-> cached.cache]
        ELSE IF Len(topMarkets) = 0
        THEN Finish([fetched EXCEPT !.topMarkets = topMarkets], cached.cache)
        ELSE [call |-> [fetched EXCEPT !.pc = "consulting", !.topMarkets = topMarkets,
                                       !.i = 1],
              cache |-> cached.cache]

FetchResolve(c, markets) ==
    /\ calls[c].pc = "fetching"
    /\ LET r == AfterFetch(calls[c], markets, agentCache) IN
          /\ calls' = [calls EXCEPT ![c] = r.call]
          /\ agentCache' = r.cache
    /\ UNCHANGED << wsVars, now, feed, lastCall, lastSet, misses, lifeVars, probe, aiVars >>

\* Mutant: a failed fetch is swallowed and the cycle carries on with no markets.
AfterFetchFailure_swallowed(call, cache) ==
    [call |-> [call EXCEPT !.pc = "returned", !.outcome = "rejected",
                           !.ret = Some(<< >>)],
     cache |-> getCachedAgentTrades(cache, call.agentId, << >>).cache]

\* Promise.all rejected: the await throws and nothing catches it
AfterFetchFailure(call, cache) ==
    [call |-> [call EXCEPT !.pc = "threw", !.outcome = "rejected"],
     cache |-> cache]

\* fetchAllMarkets or fetchLatestNews rejected
FetchReject(c) ==
    /\ calls[c].pc = "fetching"
    /\ LET r == AfterFetchFailure(calls[c], agentCache) IN
          /\ calls' = [calls EXCEPT ![c] = r.call]
          /\ agentCache' = r.cache
    /\ UNCHANGED << wsVars, now, feed, lastCall, lastSet, misses, lifeVars, probe, aiVars >>

\* Mutant: a failed oracle call starts the loop again at the first candidate.
AfterOracle_restartOnThrow(call, outcome, cache) ==
    LET agent == getAgentProfile(call.agentId).val
        scored == call.topMarkets[call.i]
        trades == IF outcome = "trade"
                  THEN Append(call.trades, TradeFor(agent, scored))
                  ELSE call.trades
        settled == [call EXCEPT !.trades = trades, !.outcome = outcome,
                                !.log = Append(@, outcome)]
    IN  IF outcome = "throw"
        THEN [call |-> [call EXCEPT !.i = 1, !.trades = << >>, !.log = << >>,
                                    !.outcome = outcome],
              cache |-> cache]
        ELSE IF ReachedMaxTrades(trades, agent) \/ call.i + 1 > Len(call.topMarkets)
        THEN Finish(settled, cache)
        ELSE [call |-> [settled EXCEPT !.i = call.i + 1], cache |-> cache]

\* Mutant: the cache is written after every iteration, not once after the loop.
AfterOracle_cachingEachStep(call, outcome, cache) ==
    LET agent == getAgentProfile(call.agentId).val
        scored == call.topMarkets[call.i]
        trades == IF outcome = "trade"
                  THEN Append(call.trades, TradeFor(agent, scored))
                  ELSE call.trades
        settled == [call EXCEPT !.trades = trades, !.outcome = outcome,
                                !.log = Append(@, outcome)]
    IN  IF ReachedMaxTrades(trades, agent) \/ call.i + 1 > Len(call.topMarkets)
        THEN Finish(settled, cache)
        ELSE [call |-> [settled EXCEPT !.i = call.i + 1],
              cache |-> setCachedAgentTrades(cache, call.agentId, trades,
                                             call.currentMarketIds)]

\* Mutant: after an accepted trade the loop index is not advanced.
AfterOracle_sameCandidate(call, outcome, cache) ==
    LET agent == getAgentProfile(call.agentId).val
        scored == call.topMarkets[call.i]
        trades == IF outcome = "trade"
                  THEN Append(call.trades, TradeFor(agent, scored))
                  ELSE call.trades
        settled == [call EXCEPT !.trades = trades, !.outcome = outcome,
                                !.log = Append(@, outcome)]
    IN  IF ReachedMaxTrades(trades, agent)
        THEN Finish(settled, cache)
        ELSE IF outcome = "trade"
        THEN [call |-> settled, cache |-> cache]
        ELSE IF call.i + 1 > Len(call.topMarkets)
        THEN Finish(settled, cache)
        ELSE [call |-> [settled EXCEPT !.i = call.i + 1], cache |-> cache]

\* Mutant: the catch block is missing, a throwing oracle fails the whole call.
AfterOracle_uncaught(call, outcome, cache) ==
    LET agent == getAgentProfile(call.agentId).val
        scored == call.topMarkets[call.i]
        trades == IF outcome = "trade"
                  THEN Append(call.trades, TradeFor(agent, scored))
                  ELSE call.trades
        settled == [call EXCEPT !.trades = trades, !.outcome = outcome,
                                !.log = Append(@, outcome)]
    IN  IF outcome = "throw"
        THEN [call |-> [settled EXCEPT !.pc = "threw"], cache |-> cache]
        ELSE IF ReachedMaxTrades(trades, agent) \/ call.i + 1 > Len(call.topMarkets)
        THEN Finish(settled, cache)
        ELSE [call |-> [settled EXCEPT !.i = call.i + 1], cache |-> cache]

\* generateTradeForMarket settled for topMarkets[i]: the rest of the iteration, and
\* the function up to its next await
AfterOracle(call, outcome, cache) ==
    LET agent == getAgentProfile(call.agentId).val
        scored == call.topMarkets[call.i]
        trades == IF outcome = "trade"
                  THEN Append(call.trades, TradeFor(agent, scored))
                  ELSE call.trades
        settled == [call EXCEPT !.trades = trades, !.outcome = outcome,
                                !.log = Append(@, outcome)]
    IN  IF ReachedMaxTrades(trades, agent) \/ call.i + 1 > Len(call.topMarkets)
        THEN Finish(settled, cache)
        ELSE [call |-> [settled EXCEPT !.i = call.i + 1], cache |-> cache]

OracleSettle(c, outcome) ==
    /\ calls[c].pc = "consulting"
    /\ LET r == AfterOracle(calls[c], outcome, agentCache) IN
          /\ calls' = [calls EXCEPT ![c] = r.call]
          /\ agentCache' = r.cache
    /\ UNCHANGED << wsVars, now, feed, lastCall, lastSet, misses, lifeVars, probe, aiVars >>

(***************************************************************************)
(* One caller invoking generateAgentTrades for its agent id again and      *)
(* again, while the clock runs and the market source changes its listing.  *)
(***************************************************************************)
GenAgentIds == {"GPT_5", "GROK_4", "UNKNOWN"}
OracleOutcomes == {"trade", "null", "throw"}

Market(id, volume, liquidity, score) ==
    [id |-> id, volume |-> volume, liquidity |-> liquidity, score |-> score]

M1 == Market(1, 500000, 50000, 90)
M2 == Market(2, 400000, 40000, 80)
M3 == Market(3, 300000, 30000, 80)
M4 == Market(4, 200000, 25000, 60)
M5 == Market(5, 150000, 20000, 50)
M6 == Market(6, 120000, 10000, 95)

Snapshots == { << M1, M2, M3, M4, M5, M6 >>, << M3, M2, M1, M4, M5 >>, << M6 >> }

Init ==
    /\ now = 0
    /\ SocketIdle
    /\ agentCache = [a \in ALL_AGENT_IDS \cup GenAgentIds |-> None]
    /\ calls \in [{1} -> { [IdleCall EXCEPT !.agentId = a] : a \in GenAgentIds }]
    /\ feed = Snapshots
    /\ lastCall = NoCall
    /\ lastSet = [a \in CacheAgents |-> None]
    /\ misses = [a \in CacheAgents |-> 0]
    /\ portfolio = IdlePortfolio
    /\ pre = IdlePortfolio
    /\ lifeArgs = None
    /\ closed = << >>
    /\ startingCapital = 0
    /\ probe = IdleProbe
    /\ aiCache = << >>
    /\ aiSet = << >>

Next ==
    \/ \E c \in DOMAIN calls : Invoke(c)
    \/ \E c \in DOMAIN calls, markets \in feed : FetchResolve(c, markets)
    \/ \E c \in DOMAIN calls : FetchReject(c)
    \/ \E c \in DOMAIN calls, outcome \in OracleOutcomes : OracleSettle(c, outcome)
    \/ Tick

Spec == Init /\ [][Next]_vars

(***************************************************************************)
(* One caller polling GPT_5 (maxTrades 4) against a listing with more      *)
(* qualifying markets than 2 x maxTrades, listed in no particular order.   *)
(***************************************************************************)
NumRankMarkets == 10

RankScore(k) == (k * 37) % 100

RankSnapshot == [k \in 1..NumRankMarkets |-> Market(k, 200000, 30000, RankScore(k))]

InitRank ==
    /\ now = 0
    /\ SocketIdle
    /\ agentCache = [a \in ALL_AGENT_IDS |-> None]
    /\ calls = [c \in {1} |-> [IdleCall EXCEPT !.agentId = "GPT_5"]]
    /\ feed = {RankSnapshot}
    /\ lastCall = NoCall
    /\ lastSet = [a \in CacheAgents |-> None]
    /\ misses = [a \in CacheAgents |-> 0]
    /\ portfolio = IdlePortfolio
    /\ pre = IdlePortfolio
    /\ lifeArgs = None
    /\ closed = << >>
    /\ startingCapital = 0
    /\ probe = IdleProbe
    /\ aiCache = << >>
    /\ aiSet = << >>

SpecRank == InitRank /\ [][Next]_vars

(***************************************************************************)
(* Two callers polling the same agent: nothing in generateAgentTrades      *)
(* keeps a second call from starting while the first one is awaiting.      *)
(***************************************************************************)
RaceCallers == {1, 2}
RaceSnapshots == { << M1, M2 >>, << M2, M6 >> }

InitRace ==
    /\ now = 0
    /\ SocketIdle
    /\ agentCache = [a \in ALL_AGENT_IDS |-> None]
    /\ calls = [c \in RaceCallers |-> [IdleCall EXCEPT !.agentId = "GPT_5"]]
    /\ feed = RaceSnapshots
    /\ lastCall = NoCall
    /\ lastSet = [a \in CacheAgents |-> None]
    /\ misses = [a \in CacheAgents |-> 0]
    /\ portfolio = IdlePortfolio
    /\ pre = IdlePortfolio
    /\ lifeArgs = None
    /\ closed = << >>
    /\ startingCapital = 0
    /\ probe = IdleProbe
    /\ aiCache = << >>
    /\ aiSet = << >>

SpecRace == InitRace /\ [][Next]_vars

(***************************************************************************)
(* Agent statistics (src/src/lib/agents/config.ts, lines 208-352)          *)
(* A trade is { status, pnl, investmentUsd }, pnl being a number or null;  *)
(* amounts are whole USD.  A quotient is kept as numerator and denominator.*)
(***************************************************************************)
\* The constant imported from ./portfolio.
STARTING_CAPITAL_USD == 3000

FRONTEND_ID_MAP ==
    [ DEEPSEEK_V3 |-> "deepseek", CLAUDE_4_5 |-> "claude", QWEN_2_5 |-> "qwen",
      GEMINI_2_5 |-> "gemini", GROK_4 |-> "grok", GPT_5 |-> "gpt5" ]

Ratio(num, den) == [num |-> num, den |-> den]

Max(a, b) == IF a > b THEN a ELSE b

\* t.pnl || 0
PnlOrZero(t) == IF t.pnl.some THEN t.pnl.val ELSE 0

RECURSIVE SumPnl(_)
SumPnl(trades) ==
    IF trades = << >> THEN 0 ELSE PnlOrZero(Head(trades)) + SumPnl(Tail(trades))

RECURSIVE SumInvestment(_)
SumInvestment(trades) ==
    IF trades = << >> THEN 0 ELSE Head(trades).investmentUsd + SumInvestment(Tail(trades))

\* Mutant: every closed trade is counted, with or without a P&L.
StatsClosedTrades_all(trades) == SelectSeq(trades, LAMBDA t : t.status = "CLOSED")

\* trades.filter(t => t.status === 'CLOSED' && t.pnl !== null)
StatsClosedTrades(trades) == SelectSeq(trades, LAMBDA t : t.status = "CLOSED" /\ t.pnl.some)

\* Mutant: the exposure counts every trade, open or closed.
StatsOpenTrades_all(trades) == trades

\* trades.filter(t => t.status === 'OPEN')
StatsOpenTrades(trades) == SelectSeq(trades, LAMBDA t : t.status = "OPEN")

\* None stands for the error getAgentProfile throws
calculateAgentStats(agentId, trades) ==
    LET agent == getAgentProfile(agentId)
        frontendId == FRONTEND_ID_MAP[agentId]
        openTrades == StatsOpenTrades(trades)
        closedTrades == StatsClosedTrades(trades)
        realizedPnl == SumPnl(closedTrades)
        exposure == SumInvestment(openTrades)
        unrealizedPnl == 0
        totalCapital == STARTING_CAPITAL_USD + realizedPnl + unrealizedPnl
        cash == totalCapital - exposure
        wins == Len(SelectSeq(closedTrades, LAMBDA t : PnlOrZero(t) > 0))
        losses == Len(SelectSeq(closedTrades, LAMBDA t : PnlOrZero(t) <= 0))
        winRate == IF wins + losses > 0 THEN Ratio(wins * 100, wins + losses)
                   ELSE Ratio(0, 1)
        totalPnl == realizedPnl + unrealizedPnl
        maxExposurePct == IF STARTING_CAPITAL_USD > 0
                          THEN Ratio(exposure * 100, STARTING_CAPITAL_USD)
                          ELSE Ratio(0, 1)
    IN  IF ~agent.some THEN None
        ELSE Some([id |-> frontendId, cash |-> Max(0, cash), total |-> Max(0, totalCapital),
                   pnl |-> totalPnl, winRate |-> winRate, wins |-> wins,
                   losses |-> losses, exposure |-> exposure,
                   maxExposure |-> maxExposurePct, calls |-> Len(trades)])

\* Array.prototype.sort with (a, b) => b.pnl - a.pnl: stable, descending
RECURSIVE InsertByPnl(_, _)
InsertByPnl(sorted, x) ==
    IF sorted = << >> THEN << x >>
    ELSE IF Head(sorted).pnl >= x.pnl
         THEN << Head(sorted) >> \o InsertByPnl(Tail(sorted), x)
         ELSE << x >> \o sorted

\* Mutant: the sort comparator is a.pnl - b.pnl.
RECURSIVE SortByPnlDesc_ascending(_)
SortByPnlDesc_ascending(seq) ==
    IF seq = << >> THEN << >>
    ELSE LET rest == SortByPnlDesc_ascending(Tail(seq))
             smaller == SelectSeq(rest, LAMBDA x : x.pnl < Head(seq).pnl)
             others == SelectSeq(rest, LAMBDA x : x.pnl >= Head(seq).pnl)
         IN  smaller \o << Head(seq) >> \o others

RECURSIVE SortByPnlDesc(_)
SortByPnlDesc(seq) ==
    IF seq = << >> THEN << >>
    ELSE InsertByPnl(SortByPnlDesc(SubSeq(seq, 1, Len(seq) - 1)), seq[Len(seq)])

\* tradesByAgent is given as its Object.entries: pairs << agentId, trades >> in
\* insertion order.
calculateAllAgentStats(tradesByAgent) ==
    LET stats == [k \in 1..Len(tradesByAgent) |->
                     calculateAgentStats(tradesByAgent[k][1], tradesByAgent[k][2])]
    IN  IF \E k \in 1..Len(stats) : ~stats[k].some THEN None
        ELSE Some(SortByPnlDesc([k \in 1..Len(stats) |-> stats[k].val]))

(***************************************************************************)
(* Summary across agents (src/dist-server/lib/agents/summary.js)           *)
(***************************************************************************)
\* One iteration of the loop; bestPnl None is -Infinity.
SummaryStep(acc, agentId, trades) ==
    LET closedTrades == SelectSeq(trades, LAMBDA t : t.status = "CLOSED")
        agentPnl == SumPnl(closedTrades)
        better == ~acc.bestPnl.some \/ agentPnl > acc.bestPnl.val
    IN  [totalPnl |-> acc.totalPnl + agentPnl,
         openTradesCount |-> acc.openTradesCount
                                + Len(SelectSeq(trades, LAMBDA t : t.status = "OPEN")),
         closedTradesCount |-> acc.closedTradesCount + Len(closedTrades),
         bestAgentByPnl |-> IF better THEN Some(agentId) ELSE acc.bestAgentByPnl,
         bestPnl |-> IF better THEN Some(agentPnl) ELSE acc.bestPnl]

RECURSIVE SummaryLoop(_, _)
SummaryLoop(acc, entries) ==
    IF entries = << >> THEN acc
    ELSE SummaryLoop(SummaryStep(acc, Head(entries)[1], Head(entries)[2]), Tail(entries))

computeSummaryStats(tradesByAgent) ==
    LET acc == SummaryLoop([totalPnl |-> 0, openTradesCount |-> 0, closedTradesCount |-> 0,
                            bestAgentByPnl |-> None, bestPnl |-> None], tradesByAgent)
    IN  [totalPnl |-> acc.totalPnl,
         openTradesCount |-> acc.openTradesCount,
         closedTradesCount |-> acc.closedTradesCount,
         bestAgentByPnl |-> IF acc.bestPnl.some THEN acc.bestAgentByPnl ELSE None]

(***************************************************************************)
(* The read-only views evaluated once each: a profile lookup for any id,   *)
(* the statistics of any trade list, the summary of any grouping.          *)
(***************************************************************************)
MaxTradesPerList == 3

ViewAgentIds ==
    ALL_AGENT_IDS \cup { "UNKNOWN", "gpt_5", "", "toString", "constructor", "__proto__" }

Trade(status, pnl, investmentUsd) ==
    [status |-> status, pnl |-> pnl, investmentUsd |-> investmentUsd]

ViewTrades ==
    { Trade("OPEN", None, 2000), Trade("OPEN", None, 1500),
      Trade("CLOSED", Some(500), 1000), Trade("CLOSED", Some(0 - 300), 1000),
      Trade("CLOSED", Some(0), 1000), Trade("CLOSED", None, 1000) }

ViewTradeLists == UNION { [1..n -> ViewTrades] : n \in 0..MaxTradesPerList }

\* The lists of a grouping: none, open only, a win, a loss, a bigger win.
GroupTradeLists ==
    { << >>, << Trade("OPEN", None, 2000) >>, << Trade("CLOSED", Some(500), 1000) >>,
      << Trade("CLOSED", Some(0 - 300), 1000) >>,
      << Trade("CLOSED", Some(500), 1000), Trade("CLOSED", Some(200), 1000) >>,
      << Trade("OPEN", None, 1500), Trade("CLOSED", Some(0 - 300), 1000) >> }

GroupAgents == { "GPT_5", "GROK_4", "CLAUDE_4_5" }

\* Every insertion order of every subset of the agents.
GroupKeyOrders ==
    { order \in UNION { [1..n -> GroupAgents] : n \in 0..Cardinality(GroupAgents) } :
        \A i \in 1..Len(order), j \in 1..Len(order) : i # j => order[i] # order[j] }

Groupings ==
    UNION { { [k \in 1..Len(order) |-> << order[k], lists[k] >>] :
                lists \in [1..Len(order) -> GroupTradeLists] } : order \in GroupKeyOrders }

ViewProbes ==
    { [op |-> "pending", fn |-> fn, agentId |-> id] :
        fn \in { "getAgentProfile", "isValidAgentId" }, id \in ViewAgentIds }
    \cup { [op |-> "pending", fn |-> "calculateAgentStats", agentId |-> id, trades |-> trades] :
              id \in { "GPT_5" }, trades \in ViewTradeLists }
    \cup { [op |-> "pending", fn |-> fn, tradesByAgent |-> grouping] :
              fn \in { "calculateAllAgentStats", "computeSummaryStats" },
              grouping \in Groupings }

Done(result) == [op |-> "done", call |-> probe, result |-> result]

ApplyGetAgentProfile ==
    /\ probe.op = "pending" /\ probe.fn = "getAgentProfile"
    /\ probe' = Done(getAgentProfile(probe.agentId))
    /\ UNCHANGED << wsVars, now, cacheVars, genVars, lifeVars, aiVars >>

ApplyIsValidAgentId ==
    /\ probe.op = "pending" /\ probe.fn = "isValidAgentId"
    /\ probe' = Done(isValidAgentId(probe.agentId))
    /\ UNCHANGED << wsVars, now, cacheVars, genVars, lifeVars, aiVars >>

ApplyCalculateAgentStats ==
    /\ probe.op = "pending" /\ probe.fn = "calculateAgentStats"
    /\ probe' = Done(calculateAgentStats(probe.agentId, probe.trades))
    /\ UNCHANGED << wsVars, now, cacheVars, genVars, lifeVars, aiVars >>

ApplyCalculateAllAgentStats ==
    /\ probe.op = "pending" /\ probe.fn = "calculateAllAgentStats"
    /\ probe' = Done(calculateAllAgentStats(probe.tradesByAgent))
    /\ UNCHANGED << wsVars, now, cacheVars, genVars, lifeVars, aiVars >>

ApplyComputeSummaryStats ==
    /\ probe.op = "pending" /\ probe.fn = "computeSummaryStats"
    /\ probe' = Done(computeSummaryStats(probe.tradesByAgent))
    /\ UNCHANGED << wsVars, now, cacheVars, genVars, lifeVars, aiVars >>

InitViews ==
    /\ now = 0
    /\ SocketIdle
    /\ probe \in ViewProbes
    /\ agentCache = [a \in CacheAgents |-> None]
    /\ lastCall = NoCall
    /\ lastSet = [a \in CacheAgents |-> None]
    /\ misses = [a \in CacheAgents |-> 0]
    /\ calls = IdleCalls
    /\ feed = {}
    /\ portfolio = IdlePortfolio
    /\ pre = IdlePortfolio
    /\ lifeArgs = None
    /\ closed = << >>
    /\ startingCapital = 0
    /\ aiCache = << >>
    /\ aiSet = << >>

NextViews ==
    \/ ApplyGetAgentProfile
    \/ ApplyIsValidAgentId
    \/ ApplyCalculateAgentStats
    \/ ApplyCalculateAllAgentStats
    \/ ApplyComputeSummaryStats

SpecViews == InitViews /\ [][NextViews]_vars

(***************************************************************************)
(* Trade generation: claims C1, C12, C14, C20 (under Spec).                *)
(***************************************************************************)
RanPipeline(call) == call.pc = "returned" /\ ~call.hit
Consulting(call) == call.pc = "consulting"
Consulted(call) == call.pc = "returned" /\ ~call.hit /\ call.topMarkets # << >>

\* C1: a generateAgentTrades cycle that runs the pipeline returns at most
\* profile.maxTrades trades, whatever the oracle answers for each candidate.
C1_AtMostMaxTrades ==
    \A c \in DOMAIN calls :
        RanPipeline(calls[c]) =>
            Len(calls[c].ret.val) <= AGENT_PROFILES[calls[c].agentId].maxTrades

C1_Witness ==
    \E c \in DOMAIN calls :
        /\ RanPipeline(calls[c])
        /\ calls[c].agentId = "GPT_5"
        /\ Len(calls[c].ret.val) = 4
        /\ calls[c].i = 5
        /\ Len(calls[c].topMarkets) = 5
        /\ calls[c].ret.val[1].marketId # calls[c].topMarkets[1].id

\* The trades a call must hold after the oracle settled as `log` says.
RECURSIVE AcceptedTrades(_, _, _)
AcceptedTrades(agent, topMarkets, log) ==
    IF log = << >> THEN << >>
    ELSE LET k == Len(log)
             before == AcceptedTrades(agent, topMarkets, SubSeq(log, 1, k - 1))
         IN  IF log[k] = "trade"
             THEN Append(before, TradeFor(agent, topMarkets[k]))
             ELSE before

Threw(call, k) == k \in 1..Len(call.log) /\ call.log[k] = "throw"

\* C12: when generateTradeForMarket throws for candidate k the call does not fail:
\* it holds exactly the trades accepted before and after k, it goes on to candidate
\* k + 1 unless k was the last one, and it returns its trades normally.
C12_OracleFailureSkipped ==
    \A c \in DOMAIN calls :
        \A k \in 1..Len(calls[c].log) :
            Threw(calls[c], k) =>
                /\ calls[c].pc \in {"consulting", "returned"}
                /\ calls[c].trades =
                      AcceptedTrades(AGENT_PROFILES[calls[c].agentId],
                                     calls[c].topMarkets, calls[c].log)
                /\ k < Len(calls[c].topMarkets) =>
                      \/ calls[c].pc = "consulting" /\ calls[c].i > k
                      \/ calls[c].pc = "returned" /\ Len(calls[c].log) > k
                /\ calls[c].pc = "returned" => calls[c].ret = Some(calls[c].trades)

C12_Witness ==
    \E c \in DOMAIN calls :
        /\ calls[c].pc = "returned"
        /\ calls[c].agentId = "GPT_5"
        /\ calls[c].log = << "trade", "throw", "trade", "null", "trade" >>
        /\ Len(calls[c].ret.val) = 3
        /\ calls[c].ret.val[2].marketId = calls[c].topMarkets[3].id

\* How many of the consulted candidates answered with a trade.
AcceptedCount(call) == Cardinality({ k \in 1..Len(call.log) : call.log[k] = "trade" })

\* C14: a candidate is consulted only while fewer than maxTrades trades are accepted,
\* and the loop ends exactly when the maxTrades-th trade is accepted or the last of
\* topMarkets has settled, whichever comes first.
C14_EarlyStop ==
    \A c \in DOMAIN calls :
        LET call == calls[c]
            maxTrades == AGENT_PROFILES[call.agentId].maxTrades
        IN  /\ Consulting(call) =>
                  /\ AcceptedCount(call) < maxTrades
                  /\ Len(call.log) < Len(call.topMarkets)
            /\ Consulted(call) =>
                  /\ AcceptedCount(call) <= maxTrades
                  /\ \/ /\ AcceptedCount(call) = maxTrades
                         /\ call.log[Len(call.log)] = "trade"
                      \/ /\ AcceptedCount(call) < maxTrades
                         /\ Len(call.log) = Len(call.topMarkets)

C14_Witness ==
    \E c \in DOMAIN calls :
        /\ Consulted(calls[c])
        /\ calls[c].agentId = "GPT_5"
        /\ calls[c].log = << "trade", "trade", "trade", "trade" >>
        /\ Len(calls[c].topMarkets) = 5
        /\ Len(calls[c].ret.val) = 4

FetchFailed(call) == call.outcome = "rejected"

\* C20: when the market or the news fetch fails, generateAgentTrades fails: it
\* returns no trade array, has consulted no oracle, and leaves the agent cache as it
\* was, an expired entry of the agent included.
C20_FetchFailureFatal ==
    /\ [](\A c \in DOMAIN calls :
            FetchFailed(calls[c]) =>
                /\ calls[c].pc = "threw"
                /\ calls[c].ret = None
                /\ calls[c].log = << >>
                /\ calls[c].topMarkets = << >>)
    /\ [][\A c \in DOMAIN calls :
            (calls[c].pc = "fetching" /\ FetchFailed(calls'[c])) =>
                agentCache' = agentCache]_vars

C20_Witness ==
    \E c \in DOMAIN calls :
        /\ FetchFailed(calls[c])
        /\ calls[c].pc = "threw"
        /\ agentCache[calls[c].agentId].some
        /\ DateNow - agentCache[calls[c].agentId].val.generatedAt >= CACHE_TTL_MS

(***************************************************************************)
(* Trade generation: claim C13 (under SpecRank).                           *)
(***************************************************************************)
Min(a, b) == IF a < b THEN a ELSE b

\* C13: the candidates handed to the oracle are the first i entries of topMarkets,
\* one at a time (the i-th only once the i - 1 before it have settled); topMarkets
\* is in descending score order, holds min(candidates, 2 x maxTrades) distinct
\* scored candidates, and no candidate left out outscores one in it.
C13_SequentialInScoreOrder ==
    \A c \in DOMAIN calls :
        (Consulting(calls[c]) \/ Consulted(calls[c])) =>
            LET call == calls[c]
                agent == AGENT_PROFILES[call.agentId]
                top == call.topMarkets
                candidates == filterCandidateMarkets(agent, call.markets)
                qualifying == { scoreMarketForAgent(candidates[k], agent) :
                                  k \in 1..Len(candidates) }
                topIds == { top[k].id : k \in 1..Len(top) }
            IN  /\ Len(top) = Min(Cardinality(qualifying), 2 * agent.maxTrades)
                /\ Cardinality(topIds) = Len(top)
                /\ \A k \in 1..Len(top) : top[k] \in qualifying
                /\ \A k \in 1..(Len(top) - 1) : top[k].score >= top[k + 1].score
                /\ \A m \in qualifying :
                      m.id \notin topIds => \A k \in 1..Len(top) : top[k].score >= m.score
                /\ call.i \in 1..Len(top)
                /\ Len(call.log) = IF Consulting(call) THEN call.i - 1 ELSE call.i

C13_Witness ==
    \E c \in DOMAIN calls :
        /\ Consulted(calls[c])
        /\ Len(calls[c].markets) = 10
        /\ Len(calls[c].topMarkets) = 8
        /\ calls[c].topMarkets[1].id = 8
        /\ calls[c].topMarkets[8].id = 9
        /\ calls[c].i = 8
        /\ Len(calls[c].ret.val) = 2

(***************************************************************************)
(* Trade generation: claim C15 (under SpecRace).                           *)
(***************************************************************************)
\* A call is between its cache lookup and its cache write from the miss to the end
\* of the loop, that is while it consults the oracle.
InCycle(call) == Consulting(call)

\* C15: while one generateAgentTrades call for an agent is between its cache lookup
\* and its cache write, no other call for the same agent is in its own pipeline (and
\* so none writes the agent's entry in between).
C15_NoRacePerAgent ==
    \A c \in DOMAIN calls, d \in DOMAIN calls :
        ( /\ c # d
          /\ calls[c].agentId = calls[d].agentId
          /\ InCycle(calls[c]) )
        => ~InCycle(calls[d])

(***************************************************************************)
(* Agent Trade Cache: claims C2, C3, C4 (under SpecCache).                 *)
(***************************************************************************)
SetFor(a) == lastSet[a].val
AgeOfSet(a) == lastCall.at - SetFor(a).at   \* seconds from the set to the latest call

\* C2: after setCachedAgentTrades(agent, trades, S), a getCachedAgentTrades(agent, S)
\* made less than 30 seconds later, with no set, clear or invalidating read for that
\* agent in between, returns exactly the trades that were set.
C2_RoundTrip ==
    ( /\ lastCall.op = "get"
      /\ lastSet[lastCall.agent].some
      /\ misses[lastCall.agent] = 0
      /\ lastCall.ids = SetFor(lastCall.agent).ids
      /\ AgeOfSet(lastCall.agent) < 30 )
    => lastCall.ret = Some(SetFor(lastCall.agent).trades)

C2_Witness ==
    /\ lastCall.op = "get"
    /\ lastSet[lastCall.agent].some
    /\ misses[lastCall.agent] = 0
    /\ lastCall.ids = SetFor(lastCall.agent).ids
    /\ AgeOfSet(lastCall.agent) = 15
    /\ lastCall.ret = Some(SetFor(lastCall.agent).trades)
    /\ Len(lastCall.ret.val) = 2

\* C3: a getCachedAgentTrades(agent, S') whose id list differs from the list S the
\* entry was set with returns null and evicts the entry, and every later get for the
\* agent, the original S included, returns null until the next set.
C3_FingerprintMismatchEvicts ==
    /\ ( /\ lastCall.op = "get"
         /\ lastSet[lastCall.agent].some
         /\ lastCall.ids # SetFor(lastCall.agent).ids )
       => (lastCall.ret = None /\ ~agentCache[lastCall.agent].some)
    /\ ( /\ lastCall.op = "get"
         /\ lastSet[lastCall.agent].some
         /\ misses[lastCall.agent] > 0 )
       => lastCall.ret = None

C3_Witness ==
    /\ lastCall.op = "get"
    /\ lastSet[lastCall.agent].some
    /\ SetFor(lastCall.agent).ids = <<1, 2>>
    /\ lastCall.ids = <<1, 3>>
    /\ AgeOfSet(lastCall.agent) < 30
    /\ misses[lastCall.agent] = 1
    /\ lastCall.ret = None
    /\ ~agentCache[lastCall.agent].some

AskedKey == AIKey(lastCall.agent, lastCall.market)
AgeOfDecision == lastCall.at - aiSet[AskedKey].val.at   \* seconds from the set to the get

Processed == lifeArgs.some
WasOpen == DOMAIN pre.openPositions
StillOpen == DOMAIN portfolio.openPositions
Listed == DOMAIN lifeArgs.val.marketsMap
ClosedEntry(position, pnl) == [position |-> position, realizedPnl |-> pnl]
InClosed(entry) == \E i \in 1..Len(closed) : closed[i] = entry

RECURSIVE SumRealized(_)
SumRealized(entries) ==
    IF entries = << >> THEN 0
    ELSE Head(entries).realizedPnl + SumRealized(Tail(entries))

\* C5: a position whose market is absent from the snapshot is closed with realized
\* P&L equal to its last unrealizedPnl and removed from openPositions; every other
\* open position that meets no close condition stays in openPositions, unchanged.
C5_DelistedForceClosed ==
    Processed =>
        \A m \in WasOpen :
            /\ m \notin Listed =>
                  /\ m \notin StillOpen
                  /\ InClosed(ClosedEntry(pre.openPositions[m],
                                          pre.openPositions[m].unrealizedPnl))
            /\ ( /\ m \in Listed
                 /\ ~shouldClosePosition(pre.openPositions[m], lifeArgs.val.marketsMap[m],
                                         OptMapGet(lifeArgs.val.scoresMap, m)) )
               => (m \in StillOpen /\ portfolio.openPositions[m] = pre.openPositions[m])

C5_Witness ==
    /\ Processed
    /\ WasOpen = {1, 2}
    /\ 1 \notin Listed
    /\ pre.openPositions[1].unrealizedPnl = 700
    /\ closed = << ClosedEntry(pre.openPositions[1], 700) >>
    /\ StillOpen = {2}
    /\ portfolio.openPositions[2] = pre.openPositions[2]

\* C6: after the call, portfolio.realizedPnlUsd has increased by exactly the sum of
\* realizedPnl over the returned closed list, for rule-based and forced closes alike.
C6_RealizedAccumulatesAllCloses ==
    Processed => portfolio.realizedPnlUsd = pre.realizedPnlUsd + SumRealized(closed)

\* C7: whenever openPositions is empty, currentCapitalUsd = startingCapital +
\* realizedPnlUsd, after any sequence of processPositionLifecycle calls.
C7_CapitalInvariant ==
    StillOpen = {} =>
        portfolio.currentCapitalUsd = startingCapital + portfolio.realizedPnlUsd

C7_Witness ==
    /\ Processed
    /\ WasOpen = {1, 2}
    /\ StillOpen = {}
    /\ Listed = {2}
    /\ portfolio.realizedPnlUsd # pre.realizedPnlUsd
    /\ portfolio.currentCapitalUsd = startingCapital + portfolio.realizedPnlUsd

\* C9: every rule-based close reports (exit - entry) * sizeUsd for a YES position
\* and (entry - exit) * sizeUsd for a NO position, exit being the market's current
\* probability.
C9_RealizedPnlFormula ==
    Processed =>
        \A i \in 1..Len(closed) :
            LET p == closed[i].position
                exit == lifeArgs.val.marketsMap[p.marketId].currentProbability
            IN  p.marketId \in Listed =>
                    closed[i].realizedPnl =
                        IF p.side = "YES"
                        THEN (exit - p.entryProbability) * p.sizeUsd
                        ELSE (p.entryProbability - exit) * p.sizeUsd

C9_Witness ==
    /\ Processed
    /\ Len(closed) = 2
    /\ Listed = {1, 2}
    /\ closed[1] = ClosedEntry(Position(1, "YES", 40, 100, 700), 4000)
    /\ closed[2] = ClosedEntry(Position(2, "NO", 60, 250, 0 - 500), 10000)

\* C10: a processPositionLifecycle call never adds an open position, and a position
\* that stays open keeps its side, entry probability, size and opened-at: over any
\* sequence of calls the set of open market ids only shrinks.
C10_OpenOnlyShrinks ==
    [][ /\ DOMAIN portfolio'.openPositions \subseteq DOMAIN portfolio.openPositions
        /\ \A m \in DOMAIN portfolio'.openPositions :
              /\ portfolio'.openPositions[m].side = portfolio.openPositions[m].side
              /\ portfolio'.openPositions[m].entryProbability =
                    portfolio.openPositions[m].entryProbability
              /\ portfolio'.openPositions[m].sizeUsd = portfolio.openPositions[m].sizeUsd
              /\ portfolio'.openPositions[m].openedAt = portfolio.openPositions[m].openedAt
      ]_vars

C10_Witness ==
    /\ Processed
    /\ WasOpen = {1, 2}
    /\ StillOpen = {2}
    /\ Len(closed) = 1
    /\ 1 \in Listed
    /\ 2 \in Listed
    /\ lifeArgs.val.marketsMap[2].currentProbability # pre.openPositions[2].entryProbability

\* The close decision of the snapshot of the last call for an open position.
MeetsCloseRule(position) ==
    shouldClosePosition(position, lifeArgs.val.marketsMap[position.marketId],
                        OptMapGet(lifeArgs.val.scoresMap, position.marketId))

ClosedMarkets == { closed[i].position.marketId : i \in 1..Len(closed) }

\* C11: in one processPositionLifecycle call every open position whose market is
\* absent is force-closed and every one whose market is present and meets a close
\* rule is closed, however many other markets are absent; each is reported once, and
\* afterwards no open position has an absent market or meets a close rule.
C11_EveryPositionEvaluated ==
    Processed =>
        /\ \A m \in WasOpen :
              (m \notin Listed \/ MeetsCloseRule(pre.openPositions[m]))
                 => (m \notin StillOpen /\ m \in ClosedMarkets)
        /\ \A m \in StillOpen : m \in Listed /\ ~MeetsCloseRule(portfolio.openPositions[m])
        /\ Len(closed) = Cardinality(ClosedMarkets)
        /\ ClosedMarkets \cup StillOpen = WasOpen

C11_Witness ==
    /\ Processed
    /\ WasOpen = {1, 2}
    /\ Listed = {2}
    /\ MeetsCloseRule(pre.openPositions[2])
    /\ StillOpen = {}
    /\ Len(closed) = 2
    /\ closed[1].position.marketId = 1
    /\ closed[2].position.marketId = 2

(***************************************************************************)
(* The exit and flip rules, and the lifecycle scan, evaluated once on a     *)
(* portfolio holding one position, for any market, score, confidence and   *)
(* age.                                                                    *)
(***************************************************************************)
ProbeProbs == 0..100
ProbeEntries == {40, 60}
ProbeOpenedAt == {0, 1}
ProbeScores == {None, Some(19), Some(20)}

ProbePositions ==
    { [marketId |-> 1, side |-> side, entryProbability |-> entry, sizeUsd |-> 100,
       openedAt |-> openedAt, unrealizedPnl |-> 0] :
         side \in {"YES", "NO"}, entry \in ProbeEntries, openedAt \in ProbeOpenedAt }

ProbeNows == {0, 30 * SecondsPerDay}

CloseProbes ==
    { [op |-> "pending", fn |-> "shouldClosePosition", position |-> position,
       currentProbability |-> prob, score |-> score] :
         position \in ProbePositions, prob \in ProbeProbs, score \in ProbeScores }

ProbeConfidences == {69, 70, 71}

FlipProbes ==
    { [op |-> "pending", fn |-> "shouldFlipPosition", position |-> position,
       currentProbability |-> prob, newConfidence |-> conf] :
         position \in ProbePositions, prob \in ProbeProbs, conf \in ProbeConfidences }

LifecycleProbes ==
    { [op |-> "pending", fn |-> "processPositionLifecycle", position |-> position,
       currentProbability |-> prob, score |-> score] :
         position \in ProbePositions, prob \in ProbeProbs, score \in ProbeScores }

\* The portfolio that holds the probed position, and nothing else.
HoldingOnly(position) ==
    [openPositions |-> [m \in {position.marketId} |-> position],
     realizedPnlUsd |-> 0, currentCapitalUsd |-> 0]

\* Mutant: a proposed flip is carried out on the spot.
ApplyShouldFlip_executed ==
    /\ probe.op = "pending"
    /\ probe.fn = "shouldFlipPosition"
    /\ LET result == shouldFlipPosition(
                         probe.position,
                         [currentProbability |-> probe.currentProbability],
                         AGENT_PROFILES["GPT_5"], probe.newConfidence)
       IN  /\ probe' = [op |-> "done", fn |-> probe.fn, position |-> probe.position,
                        currentProbability |-> probe.currentProbability,
                        newConfidence |-> probe.newConfidence, result |-> result]
           /\ portfolio' =
                 IF result
                 THEN [portfolio EXCEPT !.openPositions[probe.position.marketId].side =
                                           IF @ = "YES" THEN "NO" ELSE "YES"]
                 ELSE portfolio
    /\ UNCHANGED << wsVars, now, cacheVars, genVars, pre, lifeArgs, closed, startingCapital,
                    aiVars >>

\* shouldFlipPosition on the position as the portfolio holds it
ApplyShouldFlip ==
    /\ probe.op = "pending"
    /\ probe.fn = "shouldFlipPosition"
    /\ probe' = [op |-> "done", fn |-> probe.fn, position |-> probe.position,
                 currentProbability |-> probe.currentProbability,
                 newConfidence |-> probe.newConfidence,
                 result |-> shouldFlipPosition(
                                portfolio.openPositions[probe.position.marketId],
                                [currentProbability |-> probe.currentProbability],
                                AGENT_PROFILES["GPT_5"], probe.newConfidence)]
    /\ UNCHANGED << wsVars, now, cacheVars, genVars, lifeVars, aiVars >>

\* processPositionLifecycle on that portfolio, the position's market being listed
ApplyLifecycle ==
    /\ probe.op = "pending"
    /\ probe.fn = "processPositionLifecycle"
    /\ LET m == probe.position.marketId
           r == processPositionLifecycle(
                    portfolio,
                    [k \in {m} |-> [currentProbability |-> probe.currentProbability]],
                    IF probe.score.some
                    THEN Some([k \in {m} |-> probe.score.val]) ELSE None)
       IN  /\ portfolio' = r.portfolio
           /\ probe' = [op |-> "done", fn |-> probe.fn, position |-> probe.position,
                        currentProbability |-> probe.currentProbability,
                        score |-> probe.score, result |-> r.closedPositions]
    /\ UNCHANGED << wsVars, now, cacheVars, genVars, pre, lifeArgs, closed, startingCapital,
                    aiVars >>

ApplyShouldClose ==
    /\ probe.op = "pending"
    /\ probe.fn = "shouldClosePosition"
    /\ probe' = [op |-> "done", fn |-> probe.fn, position |-> probe.position,
                 currentProbability |-> probe.currentProbability, score |-> probe.score,
                 result |-> shouldClosePosition(
                                probe.position,
                                [currentProbability |-> probe.currentProbability],
                                probe.score)]
    /\ UNCHANGED << wsVars, now, cacheVars, genVars, lifeVars, aiVars >>

InitRules ==
    /\ now \in ProbeNows
    /\ SocketIdle
    /\ probe \in CloseProbes \cup FlipProbes \cup LifecycleProbes
    /\ agentCache = [a \in CacheAgents |-> None]
    /\ lastCall = NoCall
    /\ lastSet = [a \in CacheAgents |-> None]
    /\ misses = [a \in CacheAgents |-> 0]
    /\ calls = IdleCalls
    /\ feed = {}
    /\ portfolio = HoldingOnly(probe.position)
    /\ pre = portfolio
    /\ lifeArgs = None
    /\ closed = << >>
    /\ startingCapital = 0
    /\ aiCache = << >>
    /\ aiSet = << >>

NextRules ==
    \/ ApplyShouldClose
    \/ ApplyShouldFlip
    \/ ApplyLifecycle

SpecRules == InitRules /\ [][NextRules]_vars

(***************************************************************************)
(* Exit and flip rules: claims C8, C17, C18, C19 (under SpecRules).        *)
(***************************************************************************)
ProbedClose == probe.op = "done" /\ probe.fn = "shouldClosePosition"
ProbeAge == now - probe.position.openedAt

\* C8: younger than 30 days and with no score, a YES position closes iff the
\* probability is >= 0.80 or <= 0.30, and a NO position iff it is <= 0.20 or >= 0.70.
C8_InclusivePriceBoundaries ==
    ( /\ ProbedClose
      /\ ProbeAge < 30 * 24 * 60 * 60
      /\ ~probe.score.some )
    => ( probe.result <=>
            IF probe.position.side = "YES"
            THEN probe.currentProbability >= 80 \/ probe.currentProbability <= 30
            ELSE probe.currentProbability <= 20 \/ probe.currentProbability >= 70 )

C8_Witness ==
    /\ ProbedClose
    /\ ProbeAge = 30 * 24 * 60 * 60 - 1
    /\ ~probe.score.some
    /\ probe.position.side = "YES"
    /\ probe.currentProbability = 80
    /\ probe.result

ProbedFlip == probe.op = "done" /\ probe.fn = "shouldFlipPosition"

ProbeLosing ==
    IF probe.position.side = "YES"
    THEN probe.currentProbability < probe.position.entryProbability
    ELSE probe.currentProbability > probe.position.entryProbability

ProbeMove == Abs(probe.currentProbability - probe.position.entryProbability)

\* C17: shouldFlipPosition returns true exactly when the position is losing, the
\* opposite-side confidence exceeds 0.70 and the probability has moved at least 0.10
\* from entry; a confidence of exactly 0.70 proposes no flip.
C17_FlipNeedsConfidenceAbove70 ==
    ProbedFlip =>
        ( probe.result <=>
            /\ ProbeLosing
            /\ probe.newConfidence > 70
            /\ ProbeMove >= 10 )

\* C18: evaluating shouldFlipPosition leaves the position, the portfolio and the
\* caches as they were, and no lifecycle operation changes the side of a position
\* that stays open.
C18_FlipIsOnlyProposed ==
    [][ /\ \A m \in DOMAIN portfolio.openPositions \cap DOMAIN portfolio'.openPositions :
              portfolio'.openPositions[m].side = portfolio.openPositions[m].side
        /\ (probe.op = "pending" /\ probe.fn = "shouldFlipPosition") =>
              /\ portfolio' = portfolio
              /\ probe'.position = probe.position
              /\ agentCache' = agentCache
              /\ aiCache' = aiCache
      ]_vars

C18_Witness ==
    /\ ProbedFlip
    /\ probe.result
    /\ probe.position.side = "YES"
    /\ probe.newConfidence = 71
    /\ portfolio = HoldingOnly(probe.position)

ProbeTakeProfit ==
    IF probe.position.side = "YES"
    THEN probe.currentProbability >= 80 ELSE probe.currentProbability <= 20

ProbeStopLoss ==
    IF probe.position.side = "YES"
    THEN probe.currentProbability <= 30 ELSE probe.currentProbability >= 70

\* C19: shouldClosePosition returns true iff take-profit or stop-loss fires, or the
\* position is at least 30 days old, or a score is supplied and is below 20; with no
\* score, or a score of exactly 20, the score rule does not fire.
C19_CloseIffSomeRuleFires ==
    ProbedClose =>
        ( probe.result <=>
            \/ ProbeTakeProfit
            \/ ProbeStopLoss
            \/ ProbeAge >= 30 * 24 * 60 * 60
            \/ (probe.score.some /\ probe.score.val < 20) )

C19_Witness ==
    /\ ProbedClose
    /\ ProbeAge = 30 * 24 * 60 * 60 - 1
    /\ probe.position.side = "NO"
    /\ probe.currentProbability = 50
    /\ probe.score = Some(20)
    /\ ~probe.result

(***************************************************************************)
(* Profile lookup, statistics and summary: claims C21 to C25 (under        *)
(* SpecViews).                                                             *)
(***************************************************************************)
Viewed(fn) == probe.op = "done" /\ probe.call.fn = fn

\* C21: getAgentProfile(id) returns the profile whose id is id for every id of
\* ALL_AGENT_IDS and throws for every other id, and isValidAgentId(id) is true
\* exactly when getAgentProfile(id) does not throw.
C21_UnknownIdThrows ==
    /\ Viewed("getAgentProfile") =>
          IF probe.call.agentId \in ALL_AGENT_IDS
          THEN probe.result.some /\ probe.result.val = AGENT_PROFILES[probe.call.agentId]
                                 /\ probe.result.val.id = probe.call.agentId
          ELSE probe.result = None
    /\ Viewed("isValidAgentId") =>
          (probe.result <=> getAgentProfile(probe.call.agentId).some)

HasClosedTrade(trades) == \E j \in 1..Len(trades) : trades[j].status = "CLOSED"

ClosedPnl(trades) == SumPnl(SelectSeq(trades, LAMBDA t : t.status = "CLOSED"))

\* C22: computeSummaryStats reports bestAgentByPnl = null when no agent of the input
\* has a closed trade, agents with only open trades or none included; otherwise it
\* reports an agent of the input whose closed-trade P&L no other agent exceeds.
C22_NoClosedTradeNoBestAgent ==
    Viewed("computeSummaryStats") =>
        LET entries == probe.call.tradesByAgent
            best == probe.result.bestAgentByPnl
        IN  IF \A k \in 1..Len(entries) : ~HasClosedTrade(entries[k][2])
            THEN best = None
            ELSE /\ best.some
                 /\ \E k \in 1..Len(entries) :
                       /\ entries[k][1] = best.val
                       /\ \A j \in 1..Len(entries) :
                             ClosedPnl(entries[k][2]) >= ClosedPnl(entries[j][2])

\* The closed trades of the probed list that carry a P&L, by position in the list.
Settled == { j \in 1..Len(probe.call.trades) :
               probe.call.trades[j].status = "CLOSED" /\ probe.call.trades[j].pnl.some }

Winners == { j \in Settled : probe.call.trades[j].pnl.val > 0 }

\* C23: calculateAgentStats counts wins (P&L above zero) and losses (the rest) over
\* the closed trades with a P&L only; winRate is 100 * wins / (wins + losses), and 0
\* when there is no such trade. Open trades and closed trades without a P&L count
\* for nothing.
C23_WinRateOverSettledTrades ==
    Viewed("calculateAgentStats") =>
        LET stats == probe.result.val IN
        /\ stats.wins = Cardinality(Winners)
        /\ stats.losses = Cardinality(Settled \ Winners)
        /\ IF Settled = {}
           THEN stats.winRate.num = 0
           ELSE stats.winRate.num * Cardinality(Settled)
                    = 100 * Cardinality(Winners) * stats.winRate.den

C23_Witness ==
    /\ Viewed("calculateAgentStats")
    /\ probe.call.trades = << Trade("OPEN", None, 2000), Trade("CLOSED", Some(500), 1000),
                              Trade("CLOSED", None, 1000) >>
    /\ probe.result.val.wins = 1
    /\ probe.result.val.losses = 0
    /\ probe.result.val.winRate = Ratio(100, 1)

OpenExposure(trades) == SumInvestment(SelectSeq(trades, LAMBDA t : t.status = "OPEN"))

SettledPnl(trades) ==
    SumPnl(SelectSeq(trades, LAMBDA t : t.status = "CLOSED" /\ t.pnl.some))

C25_OneEntryPerAgentSortedByPnl ==
    Viewed("calculateAllAgentStats") =>
        LET entries == probe.call.tradesByAgent
            stats == probe.result.val
        IN  /\ probe.result.some
            /\ Len(stats) = Len(entries)
            /\ \A k \in 1..Len(entries) :
                  Cardinality({ j \in 1..Len(stats) :
                                  stats[j].id = FRONTEND_ID_MAP[entries[k][1]] }) = 1
            /\ \A j \in 1..Len(stats) :
                  \E k \in 1..Len(entries) :
                      /\ stats[j].id = FRONTEND_ID_MAP[entries[k][1]]
                      /\ stats[j].pnl = SettledPnl(entries[k][2])
            /\ \A j \in 1..(Len(stats) - 1) : stats[j].pnl >= stats[j + 1].pnl

C25_Witness ==
    /\ Viewed("calculateAllAgentStats")
    /\ Len(probe.call.tradesByAgent) = 3
    /\ probe.call.tradesByAgent[1][1] = "GPT_5"
    /\ probe.call.tradesByAgent[3][1] = "CLAUDE_4_5"
    /\ probe.result.val[1].id = "claude"
    /\ probe.result.val[1].pnl = 700
    /\ probe.result.val[2].id = "grok"
    /\ probe.result.val[2].pnl = 0
    /\ probe.result.val[3].id = "gpt5"
    /\ probe.result.val[3].pnl = 0 - 300

(***************************************************************************)
(* Quick lookup: claim C26 (under SpecCache).                              *)
(***************************************************************************)
Unexpired(a) ==
    agentCache[a].some /\ DateNow - agentCache[a].val.generatedAt < CACHE_TTL_MS

OtherIdLists(a) == { ids \in CacheIdLists : ids # agentCache[a].val.marketIds }

\* C26: getCachedTradesQuick(agent) ignores the market-id fingerprint: while the
\* entry is younger than the TTL it returns the cached trades and leaves the entry in
\* place, also for a current market set that differs from the recorded one, for which
\* getCachedAgentTrades returns null; a quick call made less than 30 seconds after the
\* set returns the trades that were set and the entry is still there afterwards.
C26_QuickIgnoresFingerprint ==
    /\ \A a \in CacheAgents :
          Unexpired(a) =>
            /\ getCachedTradesQuick(agentCache, a).ret = Some(agentCache[a].val.trades)
            /\ getCachedTradesQuick(agentCache, a).cache = agentCache
            /\ \A ids \in OtherIdLists(a) :
                  getCachedAgentTrades(agentCache, a, ids).ret = None
    /\ ( /\ lastCall.op = "quick"
         /\ lastSet[lastCall.agent].some
         /\ misses[lastCall.agent] = 0
         /\ AgeOfSet(lastCall.agent) < 30 )
       => /\ lastCall.ret = Some(SetFor(lastCall.agent).trades)
          /\ agentCache[lastCall.agent].some
          /\ agentCache[lastCall.agent].val.marketIds = SetFor(lastCall.agent).ids

C26_Witness ==
    /\ lastCall.op = "quick"
    /\ lastSet[lastCall.agent].some
    /\ misses[lastCall.agent] = 0
    /\ AgeOfSet(lastCall.agent) = 15
    /\ lastCall.ret = Some(SetFor(lastCall.agent).trades)
    /\ Len(lastCall.ret.val) = 2
    /\ Unexpired(lastCall.agent)
    /\ agentCache[lastCall.agent].val.marketIds = <<1, 2>>
    /\ getCachedAgentTrades(agentCache, lastCall.agent, <<1, 3>>).ret = None

(***************************************************************************)
(* Candidate floors: claim C27 (under Spec).                               *)
(***************************************************************************)
MeetsFloors(market, agent) ==
    market.volume >= agent.minVolume /\ market.liquidity >= agent.minLiquidity

OnQualifyingMarket(trade, call) ==
    \E k \in 1..Len(call.markets) :
        /\ call.markets[k].id = trade.marketId
        /\ MeetsFloors(call.markets[k], AGENT_PROFILES[call.agentId])

\* C27: every trade returned by a pipeline run of generateAgentTrades is on a market
\* of the snapshot fetched in that run whose volume is at least the profile's
\* minVolume and whose liquidity is at least its minLiquidity; no trade is on a
\* market that fails either floor.
C27_TradesOnlyOnCandidates ==
    \A c \in DOMAIN calls :
        RanPipeline(calls[c]) =>
            \A t \in 1..Len(calls[c].ret.val) :
                OnQualifyingMarket(calls[c].ret.val[t], calls[c])

\* GPT_5 on the six-market listing: market 6 has the best score and too little
\* liquidity; four trades are returned, none of them on market 6.
C27_Witness ==
    \E c \in DOMAIN calls :
        /\ RanPipeline(calls[c])
        /\ calls[c].agentId = "GPT_5"
        /\ calls[c].markets = << M1, M2, M3, M4, M5, M6 >>
        /\ ~MeetsFloors(M6, AGENT_PROFILES["GPT_5"])
        /\ Len(calls[c].ret.val) = 4
        /\ \A t \in 1..4 : calls[c].ret.val[t].marketId # 6

(***************************************************************************)
(* Ranking and input order: claim C28 (under Spec).                        *)
(***************************************************************************)
Reverse(seq) == [k \in 1..Len(seq) |-> seq[Len(seq) + 1 - k]]

EmptyAgentCache == [a \in DOMAIN agentCache |-> None]

\* The top markets a cycle of the agent computes from a snapshot, no entry cached.
RankedFrom(agentId, markets) ==
    AfterFetch([IdleCall EXCEPT !.pc = "fetching", !.agentId = agentId],
               markets, EmptyAgentCache).call.topMarkets

\* C28: candidate ranking does not depend on the order in which the snapshot lists
\* its markets: the top markets a cycle consults, in their order, are the ones the
\* same markets listed in the opposite order give (score descending, ties broken by
\* market id).
C28_RankingIgnoresInputOrder ==
    \A c \in DOMAIN calls :
        Consulting(calls[c]) =>
            calls[c].topMarkets = RankedFrom(calls[c].agentId, Reverse(calls[c].markets))

(***************************************************************************)
(* Termination of a generation cycle: claim C29 (under SpecLive).          *)
(*                                                                         *)
(* generateAgentTrades awaits fetchAllMarkets, fetchLatestNews and         *)
(* generateTradeForMarket and puts no deadline of its own on any of them.  *)
(* The fairness conditions state what is required of those three: each     *)
(* promise settles, the oracle's by a deadline at the latest, and an       *)
(* expired deadline is the outcome "throw".                                *)
(***************************************************************************)
FetchSettles ==
    WF_vars(\E c \in DOMAIN calls :
               \/ \E markets \in feed : FetchResolve(c, markets)
               \/ FetchReject(c))

OracleCallSettles ==
    WF_vars(\E c \in DOMAIN calls, outcome \in OracleOutcomes : OracleSettle(c, outcome))

SpecLive == Init /\ [][Next]_vars /\ FetchSettles /\ OracleCallSettles

Awaiting(call) == call.pc \in {"fetching", "consulting"}
Ended(call) == call.pc \in {"returned", "threw"}

LoopComplete(call) ==
    \/ ReachedMaxTrades(call.trades, AGENT_PROFILES[call.agentId])
    \/ Len(call.log) = Len(call.topMarkets)

\* The step in which call c leaves its loop and returns.
Completes(c) ==
    /\ calls[c].pc = "consulting"
    /\ calls'[c].pc = "returned"
    /\ LoopComplete(calls'[c])

StoresResultOf(a, c) ==
    /\ calls'[c].agentId = a
    /\ agentCache'[a] = Some([trades |-> calls'[c].ret.val,
                              generatedAt |-> DateNow,
                              marketIds |-> calls'[c].currentMarketIds])
    /\ calls'[c].ret.val = AcceptedTrades(AGENT_PROFILES[a], calls'[c].topMarkets,
                                          calls'[c].log)
    /\ calls'[c].currentMarketIds = MarketIds(calls'[c].markets)

\* C30: the Agent Trade Cache never holds a partial result: an agent's entry changes
\* only by eviction or in the step in which a generation cycle for that agent runs to
\* completion, and then it holds the complete trade list that cycle returns together
\* with the market ids of the same cycle; a cycle that fails, or that is still in its
\* loop, writes nothing.
C30_CacheHoldsCompleteResults ==
    [][ \A a \in DOMAIN agentCache :
          agentCache'[a] # agentCache[a] =>
            \/ agentCache'[a] = None
            \/ \E c \in DOMAIN calls : Completes(c) /\ StoresResultOf(a, c) ]_vars

\* A completed cycle with three trades and a failed oracle call, stored whole.
C30_Witness ==
    \E c \in DOMAIN calls :
        /\ RanPipeline(calls[c])
        /\ calls[c].agentId = "GPT_5"
        /\ Len(calls[c].ret.val) = 3
        /\ \E k \in 1..Len(calls[c].log) : calls[c].log[k] = "throw"
        /\ agentCache["GPT_5"].some
        /\ agentCache["GPT_5"].val.trades = calls[c].ret.val
        /\ agentCache["GPT_5"].val.marketIds = calls[c].currentMarketIds

(***************************************************************************)
(* Cache hit and cache write of a cycle: claims C31 and C32 (under Spec).  *)
(***************************************************************************)
\* The step in which the fetch of call c resolves.
Fetched(c) == calls[c].pc = "fetching" /\ calls'[c].pc \in {"returned", "consulting"}

\* The agent's entry is unexpired and was recorded for the ids just fetched.
FreshEntryFor(c) ==
    LET entry == agentCache[calls[c].agentId] IN
    /\ entry.some
    /\ DateNow - entry.val.generatedAt < CACHE_TTL_MS
    /\ entry.val.marketIds = calls'[c].currentMarketIds

\* C31: when the fetch of a generateAgentTrades call resolves and the agent's cache
\* entry is unexpired and recorded for the same sorted market ids as the fetched
\* snapshot, the call returns the cached trade list at once: nothing is scored, the
\* oracle is not consulted and the cache entry is left as it was, age included.
C31_CacheHitSkipsPipeline ==
    [][ \A c \in DOMAIN calls :
          (Fetched(c) /\ FreshEntryFor(c)) =>
            /\ calls'[c].pc = "returned"
            /\ calls'[c].hit
            /\ calls'[c].ret = Some(agentCache[calls[c].agentId].val.trades)
            /\ calls'[c].topMarkets = << >>
            /\ calls'[c].log = << >>
            /\ agentCache' = agentCache ]_vars

\* A hit on an entry stored 15 seconds earlier, whose age the hit did not restart.
C31_Witness ==
    \E c \in DOMAIN calls :
        /\ calls[c].pc = "returned"
        /\ calls[c].hit
        /\ calls[c].topMarkets = << >>
        /\ Len(calls[c].ret.val) = 4
        /\ agentCache[calls[c].agentId].some
        /\ agentCache[calls[c].agentId].val.trades = calls[c].ret.val
        /\ DateNow - agentCache[calls[c].agentId].val.generatedAt = 15000

\* C32: every generateAgentTrades call that missed the cache and returned normally,
\* one that returned no trades included, has stored what it returned in the Agent
\* Trade Cache under the market ids it fetched.
C32_MissStoresResult ==
    \A c \in DOMAIN calls :
        RanPipeline(calls[c]) =>
            /\ agentCache[calls[c].agentId].some
            /\ agentCache[calls[c].agentId].val.trades = calls[c].ret.val
            /\ agentCache[calls[c].agentId].val.marketIds = calls[c].currentMarketIds

\* The same for the calls that found a candidate; this much the code does.
C32_MissWithCandidatesStoresResult ==
    \A c \in DOMAIN calls :
        Consulted(calls[c]) =>
            /\ agentCache[calls[c].agentId].some
            /\ agentCache[calls[c].agentId].val.trades = calls[c].ret.val
            /\ agentCache[calls[c].agentId].val.marketIds = calls[c].currentMarketIds

(***************************************************************************)
(* The lifecycle scan as a partition and as a fixed point: claims C33 and  *)
(* C34 (under SpecLife).                                                   *)
(***************************************************************************)
\* C33: processPositionLifecycle partitions the open positions: the positions in the
\* returned closed list and the positions left in openPositions are disjoint, each
\* is a position that was open before the call, unchanged, each appears once, and
\* together they are all the positions that were open before the call.
C33_ClosedAndOpenPartition ==
    Processed =>
        /\ ClosedMarkets \cap StillOpen = {}
        /\ ClosedMarkets \cup StillOpen = WasOpen
        /\ \A i \in 1..Len(closed), j \in 1..Len(closed) :
              closed[i].position.marketId = closed[j].position.marketId => i = j
        /\ \A i \in 1..Len(closed) :
              closed[i].position = pre.openPositions[closed[i].position.marketId]
        /\ \A m \in StillOpen : portfolio.openPositions[m] = pre.openPositions[m]

C33_Witness ==
    /\ Processed
    /\ WasOpen = {1, 2}
    /\ StillOpen = {1}
    /\ ClosedMarkets = {2}
    /\ 2 \in Listed
    /\ Len(closed) = 1
    /\ closed[1].position = pre.openPositions[2]
    /\ portfolio.openPositions[1] = pre.openPositions[1]

\* The step of a second call with the markets map, scores map and clock of the call
\* before it.
RepeatedCall == lifeArgs.some /\ lifeArgs' = lifeArgs /\ now' = now

\* C34: processPositionLifecycle is idempotent on a fixed snapshot: a second call with
\* the same markets map, scores map and clock right after a first one closes nothing,
\* returns an empty list and leaves openPositions, realizedPnlUsd and
\* currentCapitalUsd as they were.
C34_SecondCallClosesNothing ==
    [][ RepeatedCall => (closed' = << >> /\ portfolio' = portfolio) ]_vars

\* After a call that closed nothing, on a snapshot under which a position on market 1
\* closes by rule, in a portfolio that holds none on market 1 any more and has
\* realized a P&L by rule.
C34_Witness ==
    /\ Processed
    /\ closed = << >>
    /\ pre = portfolio
    /\ StillOpen = {2}
    /\ Listed = {1, 2}
    /\ \E p \in PositionsOn(1) : MeetsCloseRule(p)
    /\ portfolio.realizedPnlUsd # 1200

(***************************************************************************)
(* One trade per market and cycle: claim C35 (under Spec).                 *)
(***************************************************************************)
UniqueIds(markets) ==
    \A j \in 1..Len(markets), k \in 1..Len(markets) :
        markets[j].id = markets[k].id => j = k

TradedMarkets(call) == { call.ret.val[t].marketId : t \in 1..Len(call.ret.val) }

\* C35: the trades returned by one generateAgentTrades pipeline run are on pairwise
\* distinct markets, given a snapshot whose market ids are unique.
C35_OneTradePerMarket ==
    \A c \in DOMAIN calls :
        (RanPipeline(calls[c]) /\ UniqueIds(calls[c].markets)) =>
            \A s \in 1..Len(calls[c].ret.val), t \in 1..Len(calls[c].ret.val) :
                calls[c].ret.val[s].marketId = calls[c].ret.val[t].marketId => s = t

C35_Witness ==
    \E c \in DOMAIN calls :
        /\ RanPipeline(calls[c])
        /\ calls[c].markets = << M3, M2, M1, M4, M5 >>
        /\ UniqueIds(calls[c].markets)
        /\ Len(calls[c].ret.val) = 4
        /\ Cardinality(TradedMarkets(calls[c])) = 4

(***************************************************************************)
(* Both caches under one client: claim C36 (under SpecKeys).               *)
(***************************************************************************)
KeyIdLists == { <<1, 2>>, <<1, 3>> }
KeyTrades == << T(1, "YES") >>
KeyDecision == [side |-> "YES", confidence |-> 75]
KeyTickSteps == {30}

\* lastCall names the operation of the latest step and the key it was given.
KeyCall(op, agent, market) == [op |-> op, agent |-> agent, market |-> market, at |-> now]

KeySet(a, ids) ==
    /\ agentCache' = setCachedAgentTrades(agentCache, a, KeyTrades, ids)
    /\ lastCall' = KeyCall("set", a, "")
    /\ UNCHANGED << wsVars, now, lastSet, misses, genVars, lifeVars, probe, aiVars >>

KeyGet(a, ids) ==
    /\ agentCache' = getCachedAgentTrades(agentCache, a, ids).cache
    /\ lastCall' = KeyCall("get", a, "")
    /\ UNCHANGED << wsVars, now, lastSet, misses, genVars, lifeVars, probe, aiVars >>

KeyQuick(a) ==
    /\ agentCache' = getCachedTradesQuick(agentCache, a).cache
    /\ lastCall' = KeyCall("quick", a, "")
    /\ UNCHANGED << wsVars, now, lastSet, misses, genVars, lifeVars, probe, aiVars >>

KeyClear ==
    /\ agentCache' = clearAgentCache(agentCache)
    /\ lastCall' = KeyCall("clear", "", "")
    /\ UNCHANGED << wsVars, now, lastSet, misses, genVars, lifeVars, probe, aiVars >>

KeySetAI(a, m) ==
    /\ aiCache' = setCachedAIDecision(aiCache, a, m, KeyDecision)
    /\ lastCall' = KeyCall("setAI", a, m)
    /\ UNCHANGED << wsVars, now, aiSet, agentCache, lastSet, misses, genVars, lifeVars, probe >>

KeyGetAI(a, m) ==
    /\ aiCache' = getCachedAIDecision(aiCache, a, m).cache
    /\ lastCall' = KeyCall("getAI", a, m)
    /\ UNCHANGED << wsVars, now, aiSet, agentCache, lastSet, misses, genVars, lifeVars, probe >>

KeyClearAI ==
    /\ aiCache' = clearAICache(aiCache)
    /\ lastCall' = KeyCall("clearAI", "", "")
    /\ UNCHANGED << wsVars, now, aiSet, agentCache, lastSet, misses, genVars, lifeVars, probe >>

KeyTick ==
    /\ \E d \in KeyTickSteps : now + d <= MaxNow /\ now' = now + d
    /\ lastCall' = KeyCall("tick", "", "")
    /\ UNCHANGED << wsVars, agentCache, lastSet, misses, genVars, lifeVars, probe, aiVars >>

InitKeys ==
    /\ now = 0
    /\ SocketIdle
    /\ agentCache = [a \in CacheAgents |-> None]
    /\ lastCall = NoCall
    /\ lastSet = [a \in CacheAgents |-> None]
    /\ misses = [a \in CacheAgents |-> 0]
    /\ aiCache = [k \in AIKeys |-> None]
    /\ aiSet = [k \in AIKeys |-> None]
    /\ calls = IdleCalls
    /\ feed = {}
    /\ portfolio = IdlePortfolio
    /\ pre = IdlePortfolio
    /\ lifeArgs = None
    /\ closed = << >>
    /\ startingCapital = 0
    /\ probe = IdleProbe

NextKeys ==
    \/ \E a \in CacheAgents, ids \in KeyIdLists : KeySet(a, ids)
    \/ \E a \in CacheAgents, ids \in KeyIdLists : KeyGet(a, ids)
    \/ \E a \in CacheAgents : KeyQuick(a)
    \/ KeyClear
    \/ \E pair \in AIPairs : KeySetAI(pair[1], pair[2])
    \/ \E pair \in AIPairs : KeyGetAI(pair[1], pair[2])
    \/ KeyClearAI
    \/ KeyTick

SpecKeys == InitKeys /\ [][NextKeys]_vars

\* The operation of the step, read off the state it leads to.
OnAgent(a) == lastCall'.op \in {"set", "get", "quick"} /\ lastCall'.agent = a
OnPair(pair) ==
    lastCall'.op \in {"setAI", "getAI"} /\ lastCall'.agent = pair[1] /\ lastCall'.market = pair[2]

\* What the lookups for a key return in a state, and what they do to the map.
LookupAgent(cache, a) ==
    [quick |-> getCachedTradesQuick(cache, a).ret,
     gets |-> [ids \in KeyIdLists |-> getCachedAgentTrades(cache, a, ids).ret]]
LookupPair(cache, pair) == getCachedAIDecision(cache, pair[1], pair[2]).ret

\* C36: the cache keys are isolated and eviction is lazy: a get, a set or an eviction
\* for one agent's Agent Trade Cache entry, or for one (agent, market) Decision Cache
\* entry, leaves every other agent's and every other pair's entry, and so what a
\* lookup for it returns, as it was, and leaves the other cache alone; an entry
\* disappears only in a read of its own key or in a clear of its cache, never in
\* an operation on another key and never by the passing of time.
C36_KeyIsolationLazyEviction ==
    [][ /\ \A a \in CacheAgents :
              /\ (\E b \in CacheAgents : b # a /\ OnAgent(b)) =>
                    /\ agentCache'[a] = agentCache[a]
                    /\ LookupAgent(agentCache', a) = LookupAgent(agentCache, a)
              /\ (agentCache[a].some /\ ~agentCache'[a].some) =>
                    \/ lastCall'.op \in {"get", "quick"} /\ lastCall'.agent = a
                    \/ lastCall'.op = "clear"
        /\ \A pair \in AIPairs :
              /\ (\E other \in AIPairs : other # pair /\ OnPair(other)) =>
                    /\ aiCache'[AIKey(pair[1], pair[2])] = aiCache[AIKey(pair[1], pair[2])]
                    /\ LookupPair(aiCache', pair) = LookupPair(aiCache, pair)
              /\ (aiCache[AIKey(pair[1], pair[2])].some
                    /\ ~aiCache'[AIKey(pair[1], pair[2])].some) =>
                    \/ lastCall'.op = "getAI" /\ OnPair(pair)
                    \/ lastCall'.op = "clearAI"
        /\ lastCall'.op \in {"set", "get", "quick", "clear", "tick"} => aiCache' = aiCache
        /\ lastCall'.op \in {"setAI", "getAI", "clearAI", "tick"} => agentCache' = agentCache
      ]_vars

\* A read of GPT_5's expired decision on market 1 has just evicted it; the equally
\* old decision on market 2 and GROK_4's on market 1 are still stored, and so is an
\* expired trade list of GROK_4 next to a fresh one of GPT_5.
C36_Witness ==
    /\ lastCall.op = "getAI"
    /\ lastCall.agent = "GPT_5"
    /\ lastCall.market = "1"
    /\ now = 30
    /\ ~aiCache[AIKey("GPT_5", "1")].some
    /\ aiCache[AIKey("GPT_5", "2")].some
    /\ aiCache[AIKey("GPT_5", "2")].val.cachedAt = 0
    /\ aiCache[AIKey("GROK_4", "1")].some
    /\ aiCache[AIKey("GROK_4", "1")].val.cachedAt = 0
    /\ agentCache["GROK_4"].some
    /\ agentCache["GROK_4"].val.generatedAt = 0
    /\ agentCache["GPT_5"].some
    /\ agentCache["GPT_5"].val.generatedAt = 30000

(***************************************************************************)
(* WebSocket client (src/src/lib/agents/config.ts, lines 355-456)          *)
(*                                                                         *)
(* sockets[s] is the socket the s-th io() call created: whether socket.io  *)
(* has it connected, whether it is still in use (disconnect() has not been *)
(* called on it) and which promise its handlers resolve and reject.        *)
(* attempts[p] is the p-th promise of the async block: importing (awaiting *)
(* import('./apiConfig')), pending, resolved or rejected, the socket it    *)
(* created, the value it resolved with and whether its 3-second timer is   *)
(* still armed.                                                            *)
(***************************************************************************)
MaxAttempts == 2
SocketCallers == {1, 2}

NewAttempt == [state |-> "importing", sock |-> 0, value |-> None, timer |-> FALSE]

Connected(sock, socks) == sock.some /\ socks[sock.val].connected   \* socket?.connected

\* Mutant: the stored promise is not looked at, every call without a connected
\* socket starts an attempt.
getSocket_noPromiseCheck(sock, promise, socks, atts) ==
    IF Connected(sock, socks)
    THEN [ret |-> [kind |-> "socket", id |-> sock.val, fresh |-> FALSE,
                   given |-> "connected"],
          connectionPromise |-> promise, attempts |-> atts]
    ELSE [ret |-> [kind |-> "promise", id |-> Len(atts) + 1, fresh |-> TRUE,
                   given |-> "importing"],
          connectionPromise |-> Some(Len(atts) + 1),
          attempts |-> Append(atts, NewAttempt)]

\* getSocket up to its return: what the caller is handed (`given` is the state the
\* promise was in at that moment) and what the module variables become
getSocket(sock, promise, socks, atts) ==
    IF Connected(sock, socks)
    THEN [ret |-> [kind |-> "socket", id |-> sock.val, fresh |-> FALSE,
                   given |-> "connected"],
          connectionPromise |-> promise, attempts |-> atts]
    ELSE IF promise.some
    THEN [ret |-> [kind |-> "promise", id |-> promise.val, fresh |-> FALSE,
                   given |-> atts[promise.val].state],
          connectionPromise |-> promise, attempts |-> atts]
    ELSE [ret |-> [kind |-> "promise", id |-> Len(atts) + 1, fresh |-> TRUE,
                   given |-> "importing"],
          connectionPromise |-> Some(Len(atts) + 1),
          attempts |-> Append(atts, NewAttempt)]

otherVars == << now, cacheVars, genVars, lifeVars, probe, aiVars >>

CanCall == connectionPromise.some \/ Connected(socket, sockets) \/ Len(attempts) < MaxAttempts

\* A caller calls getSocket()
GetSocket(c) ==
    /\ CanCall
    /\ LET r == getSocket(socket, connectionPromise, sockets, attempts) IN
          /\ connectionPromise' = r.connectionPromise
          /\ attempts' = r.attempts
          /\ received' = [received EXCEPT ![c] =
                             Some([via |-> "getSocket", subscribed |-> FALSE,
                                   answer |-> r.ret])]
    /\ UNCHANGED << socket, sockets, otherVars >>

\* A caller calls subscribe(channel, callback), up to `await getSocket()`
Subscribe(c) ==
    /\ CanCall
    /\ LET r == getSocket(socket, connectionPromise, sockets, attempts) IN
          /\ connectionPromise' = r.connectionPromise
          /\ attempts' = r.attempts
          /\ received' = [received EXCEPT ![c] =
                             Some([via |-> "subscribe", subscribed |-> FALSE,
                                   answer |-> r.ret])]
    /\ UNCHANGED << socket, sockets, otherVars >>

\* The socket an answer stands for, once there is one.
SocketOf(answer) ==
    IF answer.kind = "socket" THEN Some(answer.id)
    ELSE IF attempts[answer.id].state = "resolved" THEN attempts[answer.id].value
    ELSE None

\* subscribe after its await: ws.emit('subscribe', channel); ws.on(channel, callback)
SubscribeResume(c) ==
    /\ received[c].some
    /\ received[c].val.via = "subscribe"
    /\ ~received[c].val.subscribed
    /\ SocketOf(received[c].val.answer).some
    /\ received' = [received EXCEPT ![c].val.subscribed = TRUE]
    /\ UNCHANGED << socket, connectionPromise, sockets, attempts, otherVars >>

\* import('./apiConfig') resolved: io(wsUrl, ...) is assigned to `socket`, the timer
\* is armed and the three handlers are registered
ImportResolve(p) ==
    /\ attempts[p].state = "importing"
    /\ sockets' = Append(sockets, [connected |-> FALSE, active |-> TRUE, attempt |-> p])
    /\ socket' = Some(Len(sockets) + 1)
    /\ attempts' = [attempts EXCEPT ![p] = [@ EXCEPT !.state = "pending",
                                                     !.sock = Len(sockets) + 1,
                                                     !.timer = TRUE]]
    /\ UNCHANGED << connectionPromise, received, otherVars >>

\* import('./apiConfig') rejected: the catch block returns Promise.reject(error)
ImportReject(p) ==
    /\ attempts[p].state = "importing"
    /\ attempts' = [attempts EXCEPT ![p].state = "rejected"]
    /\ UNCHANGED << socket, connectionPromise, sockets, received, otherVars >>

Settle(attempt, state, value) ==
    IF attempt.state = "pending"
    THEN [attempt EXCEPT !.state = state, !.value = value, !.timer = FALSE]
    ELSE [attempt EXCEPT !.timer = FALSE]

\* socket.on('connect'): clearTimeout(timeoutId); resolve(socket!)
OnConnect(s) ==
    /\ sockets[s].active
    /\ ~sockets[s].connected
    /\ sockets' = [sockets EXCEPT ![s].connected = TRUE]
    /\ attempts' = [attempts EXCEPT ![sockets[s].attempt] = Settle(@, "resolved", socket)]
    /\ UNCHANGED << socket, connectionPromise, received, otherVars >>

\* socket.on('connect_error'): clearTimeout(timeoutId); reject(error).  socket.io
\* keeps trying to reconnect, the socket may connect later.
OnConnectError(s) ==
    /\ sockets[s].active
    /\ ~sockets[s].connected
    /\ attempts' = [attempts EXCEPT ![sockets[s].attempt] = Settle(@, "rejected", None)]
    /\ UNCHANGED << socket, connectionPromise, sockets, received, otherVars >>

\* socket.on('disconnect'): the connection is lost, only a log line
OnDisconnect(s) ==
    /\ sockets[s].active
    /\ sockets[s].connected
    /\ sockets' = [sockets EXCEPT ![s].connected = FALSE]
    /\ UNCHANGED << socket, connectionPromise, attempts, received, otherVars >>

\* The setTimeout callback of attempt p, 3 seconds after io()
OnTimeout(p) ==
    /\ attempts[p].timer
    /\ attempts' = [attempts EXCEPT ![p] =
                       IF ~Connected(socket, sockets)
                       THEN Settle(@, "rejected", None)
                       ELSE [@ EXCEPT !.timer = FALSE]]
    /\ UNCHANGED << socket, connectionPromise, sockets, received, otherVars >>

\* disconnect()
Disconnect ==
    /\ IF socket.some
       THEN /\ sockets' = [sockets EXCEPT ![socket.val] =
                              [@ EXCEPT !.connected = FALSE, !.active = FALSE]]
            /\ socket' = None
            /\ connectionPromise' = None
       ELSE UNCHANGED << socket, connectionPromise, sockets >>
    /\ UNCHANGED << attempts, received, otherVars >>

InitSocket ==
    /\ now = 0
    /\ socket = None
    /\ connectionPromise = None
    /\ sockets = << >>
    /\ attempts = << >>
    /\ received = [c \in SocketCallers |-> None]
    /\ agentCache = [a \in CacheAgents |-> None]
    /\ lastCall = NoCall
    /\ lastSet = [a \in CacheAgents |-> None]
    /\ misses = [a \in CacheAgents |-> 0]
    /\ calls = IdleCalls
    /\ feed = {}
    /\ portfolio = IdlePortfolio
    /\ pre = IdlePortfolio
    /\ lifeArgs = None
    /\ closed = << >>
    /\ startingCapital = 0
    /\ probe = IdleProbe
    /\ aiCache = << >>
    /\ aiSet = << >>

NextSocket ==
    \/ \E c \in SocketCallers : GetSocket(c)
    \/ \E c \in SocketCallers : Subscribe(c)
    \/ \E c \in SocketCallers : SubscribeResume(c)
    \/ \E p \in 1..Len(attempts) : ImportResolve(p)
    \/ \E p \in 1..Len(attempts) : ImportReject(p)
    \/ \E s \in 1..Len(sockets) : OnConnect(s)
    \/ \E s \in 1..Len(sockets) : OnConnectError(s)
    \/ \E s \in 1..Len(sockets) : OnDisconnect(s)
    \/ \E p \in 1..Len(attempts) : OnTimeout(p)
    \/ Disconnect

SpecSocket == InitSocket /\ [][NextSocket]_vars

(***************************************************************************)
(* WebSocket client: claims C37 and C38 (under SpecSocket).                *)
(***************************************************************************)
\* An attempt that is still under way: not settled, its socket not given up.
Live(p) ==
    \/ attempts[p].state = "importing"
    \/ attempts[p].state = "pending" /\ sockets[attempts[p].sock].active

Answered(c) == received[c].some
AnswerOf(c) == received[c].val.answer

\* C37: the client keeps a single connection: every socket was created by one
\* attempt and every attempt created at most one; at most one attempt is under way at
\* a time and every caller that was handed a promise still under way was handed that
\* same one; at most one socket is in use, it is the module's `socket`, and every
\* caller whose answer is, or has resolved to, a socket in use has that socket.
C37_SingleConnection ==
    /\ \A s \in 1..Len(sockets) :
          /\ sockets[s].attempt \in 1..Len(attempts)
          /\ attempts[sockets[s].attempt].sock = s
          /\ sockets[s].active => socket = Some(s)
    /\ \A p \in 1..Len(attempts) : Live(p) => connectionPromise = Some(p)
    /\ \A c \in SocketCallers :
          /\ ( /\ Answered(c)
               /\ AnswerOf(c).kind = "promise"
               /\ Live(AnswerOf(c).id) ) => connectionPromise = Some(AnswerOf(c).id)
          /\ ( /\ Answered(c)
               /\ SocketOf(AnswerOf(c)).some
               /\ sockets[SocketOf(AnswerOf(c)).val].active )
             => SocketOf(AnswerOf(c)) = socket

\* Caller 2 asked while the attempt caller 1 had started was pending and was handed
\* the same promise; it resolved to socket 1, which caller 1, asking again after the
\* connect, was handed directly.  One io() call was made.
C37_Witness ==
    /\ Answered(1)
    /\ Answered(2)
    /\ AnswerOf(1) = [kind |-> "socket", id |-> 1, fresh |-> FALSE, given |-> "connected"]
    /\ AnswerOf(2) = [kind |-> "promise", id |-> 1, fresh |-> FALSE, given |-> "pending"]
    /\ attempts = << [state |-> "resolved", sock |-> 1, value |-> Some(1), timer |-> FALSE] >>
    /\ Len(sockets) = 1
    /\ sockets[1].connected
    /\ socket = Some(1)

\* An attempt that made its io() call and was rejected by connect_error or by the
\* 3-second timer.
FailedToConnect(p) == attempts[p].state = "rejected" /\ attempts[p].sock # 0

\* C38: a getSocket call made after the stored connection attempt has failed
\* (connect_error or the 3-second timeout), with the socket not connected, starts a
\* fresh attempt: no caller is handed the promise of such an attempt when it was
\* already rejected at the moment it was handed out.
C38_FailedAttemptNotReturned ==
    \A c \in SocketCallers :
        ( /\ Answered(c)
          /\ AnswerOf(c).kind = "promise"
          /\ FailedToConnect(AnswerOf(c).id) )
        => AnswerOf(c).given # "rejected"

====
